---- MODULE Spec2Model ----
(***************************************************************************)
(* Model of the adaptive gesture recognition engine of InSync              *)
(* (src/src/gesture-recognizer.js, class GestureRecognizer).               *)
(*                                                                         *)
(* Numbers.  Landmark coordinates are the normalised camera coordinates    *)
(* multiplied by 1000 (0.02 is 20).  Distances are compared by their       *)
(* squares.  Confidences are integers in units of 1/ONE; ONE is chosen so  *)
(* that every weighted average formed by predictWithTrainedModels and      *)
(* every blend (h + m) / 2 of analyzeHandGesture is an exact integer.      *)
(* Times are milliseconds; Date.now() at construction is Epoch.            *)
(***************************************************************************)
EXTENDS Integers, Sequences, FiniteSets, TLC

\* JavaScript null / undefined, where a string is expected (a label, a
\* gesture name, a pose) and where an object is expected (a model, a
\* prediction, a feature packet, a stored record).
None == "null"
Null == [null |-> TRUE]

\* ------------------------------------------------------------------------
\* Confidence arithmetic
\* ------------------------------------------------------------------------
\* Weights of predictWithTrainedModels are 1 (softmax) and 0.9 (location),
\* that is 10 and 9 tenths; the sums of weights per label are 9, 10, 19, 20
\* and 29 tenths.  Unit is a common multiple of all of them.
Unit == 9 * 19 * 29 * 20
ONE == 20 * Unit
\* p hundredths as a confidence.
Conf(p) == p * (ONE \div 100)

Max2(a, b) == IF a >= b THEN a ELSE b
Min2(a, b) == IF a <= b THEN a ELSE b
Abs(a) == IF a < 0 THEN -a ELSE a

\* Largest and smallest element of a non-empty sequence of integers
\* (Math.max(...xs), Math.min(...xs)).
RECURSIVE SeqMax(_)
SeqMax(s) == IF Len(s) = 1 THEN s[1] ELSE Max2(s[1], SeqMax(Tail(s)))
RECURSIVE SeqMin(_)
SeqMin(s) == IF Len(s) = 1 THEN s[1] ELSE Min2(s[1], SeqMin(Tail(s)))

\* ------------------------------------------------------------------------
\* Hand observations.  A pose is named; Landmarks(pose) is its landmark
\* array, indexed from 0 like the JavaScript array.
\* ------------------------------------------------------------------------
Pt(x, y) == [x |-> x, y |-> y, z |-> 0]

\* Closed fist, upright hand, thumb folded: no detector fires.
FistPts ==
  << Pt(500, 800),
     Pt(430, 750), Pt(400, 700), Pt(390, 660), Pt(390, 640),
     Pt(450, 600), Pt(450, 520), Pt(450, 540), Pt(450, 570),
     Pt(500, 590), Pt(500, 510), Pt(500, 530), Pt(500, 560),
     Pt(550, 600), Pt(550, 520), Pt(550, 540), Pt(550, 570),
     Pt(600, 620), Pt(600, 540), Pt(600, 560), Pt(600, 590) >>

\* Fist with the thumb raised.
ThumbUpPts ==
  << Pt(500, 800),
     Pt(430, 750), Pt(400, 700), Pt(380, 600), Pt(360, 500),
     Pt(450, 600), Pt(450, 520), Pt(450, 540), Pt(450, 570),
     Pt(500, 590), Pt(500, 510), Pt(500, 530), Pt(500, 560),
     Pt(550, 600), Pt(550, 520), Pt(550, 540), Pt(550, 570),
     Pt(600, 620), Pt(600, 540), Pt(600, 560), Pt(600, 590) >>

\* Open palm, four fingers extended and spread, thumb folded.
OpenPalmPts ==
  << Pt(500, 800),
     Pt(430, 750), Pt(400, 700), Pt(390, 660), Pt(390, 640),
     Pt(450, 600), Pt(430, 500), Pt(410, 420), Pt(400, 350),
     Pt(500, 590), Pt(500, 490), Pt(500, 400), Pt(500, 330),
     Pt(550, 600), Pt(570, 500), Pt(580, 420), Pt(590, 350),
     Pt(600, 620), Pt(640, 540), Pt(660, 470), Pt(680, 400) >>

\* Index finger raised and pointing sideways, other fingers and thumb folded.
PointPts ==
  << Pt(500, 800),
     Pt(430, 750), Pt(400, 700), Pt(390, 660), Pt(390, 640),
     Pt(450, 600), Pt(430, 520), Pt(400, 430), Pt(380, 350),
     Pt(500, 590), Pt(500, 510), Pt(500, 530), Pt(500, 560),
     Pt(550, 600), Pt(550, 520), Pt(550, 540), Pt(550, 570),
     Pt(600, 620), Pt(600, 540), Pt(600, 560), Pt(600, 590) >>

\* The points of pts moved by (dx, dy).
Shift(pts, dx, dy) ==
  [i \in 1..Len(pts) |-> [x |-> pts[i].x + dx, y |-> pts[i].y + dy, z |-> pts[i].z]]

\* The JavaScript array of the points pts: indexed from 0.
ArrayOf(pts) == [i \in 0..(Len(pts) - 1) |-> pts[i + 1]]

FistLm == ArrayOf(FistPts)
ThumbUpLm == ArrayOf(ThumbUpPts)
OpenPalmLm == ArrayOf(OpenPalmPts)
PointLm == ArrayOf(PointPts)
\* a fist 0.1 to the right and 0.05 lower (second hand, or a hand that moved)
FistRightLm == ArrayOf(Shift(FistPts, 100, 50))
\* a fist in the upper part of the image
FistHighLm == ArrayOf(Shift(FistPts, 200, -400))
\* a partial observation: only the wrist and the thumb were delivered
PartialLm == ArrayOf(SubSeq(FistPts, 1, 5))

Landmarks(pose) ==
  CASE pose = "Fist" -> FistLm
    [] pose = "ThumbUp" -> ThumbUpLm
    [] pose = "OpenPalm" -> OpenPalmLm
    [] pose = "Point" -> PointLm
    [] pose = "FistRight" -> FistRightLm
    [] pose = "FistHigh" -> FistHighLm
    [] pose = "Partial" -> PartialLm

AllPoses == {"Fist", "ThumbUp", "OpenPalm", "Point", "FistRight", "FistHigh", "Partial"}

\* landmarks.length
NumLandmarks(pose) == Cardinality(DOMAIN Landmarks(pose))

HandLabels == {"Left", "Right", None}

\* ------------------------------------------------------------------------
\* Heuristic detector bank
\* ------------------------------------------------------------------------
StartsWithRight(handLabel) == handLabel = "Right"
StartsWithLeft(handLabel) == handLabel = "Left"

PipOf(fingerIndex) ==
  CASE fingerIndex = 8 -> 6
    [] fingerIndex = 12 -> 10
    [] fingerIndex = 16 -> 14
    [] fingerIndex = 20 -> 18
    [] OTHER -> 0

isFingerExtended(lm, fingerIndex, handLabel) ==
  IF fingerIndex = 4
  THEN IF handLabel # None /\ StartsWithRight(handLabel)
       THEN lm[4].x < lm[2].x - 20
       ELSE IF handLabel # None /\ StartsWithLeft(handLabel)
       THEN lm[4].x > lm[2].x + 20
       ELSE Abs(lm[4].x - lm[3].x) > 30 \/ Abs(lm[4].y - lm[3].y) > 30
  ELSE lm[fingerIndex].y < lm[PipOf(fingerIndex)].y - 20

\* (a.x - b.x)^2 + (a.y - b.y)^2, the square of Math.hypot(dx, dy)
Hypot2(a, b) == (a.x - b.x) * (a.x - b.x) + (a.y - b.y) * (a.y - b.y)

\* ctx = [allHands, handIndex, histories]; handIndex counts from 0.
HistoryOf(ctx) == ctx.histories[ctx.handIndex]

\* A variant of detectWave that is content with 5 frames of history.
detectWaveFromFive(lm, handLabel, ctx) ==
  LET history == HistoryOf(ctx)
      xs == [k \in 1..Len(history) |-> Landmarks(history[k])[8].x]
  IN IF Len(history) < 5 THEN 0
     ELSE IF SeqMax(xs) - SeqMin(xs) > 60 THEN Conf(85) ELSE 0

detectWave(lm, handLabel, ctx) ==
  LET history == HistoryOf(ctx)
      xs == [k \in 1..Len(history) |-> Landmarks(history[k])[8].x]
  IN IF Len(history) < 6 THEN 0
     ELSE IF SeqMax(xs) - SeqMin(xs) > 60 THEN Conf(85) ELSE 0

OthersClosed(lm, handLabel) ==
  /\ ~isFingerExtended(lm, 8, handLabel)
  /\ ~isFingerExtended(lm, 12, handLabel)
  /\ ~isFingerExtended(lm, 16, handLabel)
  /\ ~isFingerExtended(lm, 20, handLabel)

\* 4 * avgFingersY
FingersYSum(lm) == lm[8].y + lm[12].y + lm[16].y + lm[20].y

\* A variant of detectThumbUp that answers in percent.
detectThumbUpPercent(lm, handLabel) ==
  IF ~isFingerExtended(lm, 4, handLabel) \/ ~OthersClosed(lm, handLabel) THEN 0
  ELSE IF 4 * lm[4].y < FingersYSum(lm) - 4 * 30 THEN 95 * ONE ELSE 0

detectThumbUp(lm, handLabel) ==
  IF ~isFingerExtended(lm, 4, handLabel) \/ ~OthersClosed(lm, handLabel) THEN 0
  ELSE IF 4 * lm[4].y < FingersYSum(lm) - 4 * 30 THEN Conf(95) ELSE 0

detectThumbDown(lm, handLabel) ==
  IF ~isFingerExtended(lm, 4, handLabel) \/ ~OthersClosed(lm, handLabel) THEN 0
  ELSE IF 4 * lm[4].y > FingersYSum(lm) + 4 * 30 THEN Conf(95) ELSE 0

detectThankYou(lm, handLabel, ctx) ==
  IF Len(ctx.allHands) >= 2
     /\ Hypot2(Landmarks(ctx.allHands[1].pose)[0],
               Landmarks(ctx.allHands[2].pose)[0]) < 120 * 120
  THEN Conf(90) ELSE 0

ExtendedCount(lm, handLabel) ==
  Cardinality({f \in {8, 12, 16, 20} : isFingerExtended(lm, f, handLabel)})

detectStop(lm, handLabel) ==
  IF /\ ExtendedCount(lm, handLabel) >= 3
     /\ ~isFingerExtended(lm, 4, handLabel)
     /\ Hypot2(lm[8], lm[12]) > 60 * 60
     /\ Hypot2(lm[12], lm[16]) > 50 * 50
  THEN Conf(90) ELSE 0

detectQuestion(lm, handLabel) ==
  IF /\ isFingerExtended(lm, 8, handLabel)
     /\ ~isFingerExtended(lm, 12, handLabel)
     /\ ~isFingerExtended(lm, 16, handLabel)
     /\ ~isFingerExtended(lm, 20, handLabel)
     /\ ~isFingerExtended(lm, 4, handLabel)
     /\ 4 * lm[8].y < (lm[12].y + lm[16].y + lm[20].y + lm[4].y) - 4 * 60
  THEN Conf(95) ELSE 0

detectHelp(lm, handLabel, ctx) ==
  IF Len(ctx.allHands) >= 2
  THEN IF /\ Landmarks(ctx.allHands[1].pose)[0].y < 450
          /\ Landmarks(ctx.allHands[2].pose)[0].y < 450
       THEN Conf(90) ELSE 0
  ELSE IF lm[0].y < lm[9].y - 30 THEN Conf(60) ELSE 0

\* A variant of detectWait that does not look at the index finger.
detectWaitRaisedOnly(lm, handLabel) ==
  IF lm[0].y < lm[9].y - 20 THEN Conf(70) ELSE 0

detectWait(lm, handLabel) ==
  IF isFingerExtended(lm, 8, handLabel) /\ lm[0].y < lm[9].y - 20
  THEN Conf(70) ELSE 0

detectGo(lm, handLabel) ==
  IF /\ isFingerExtended(lm, 8, handLabel)
     /\ ~isFingerExtended(lm, 12, handLabel)
     /\ Abs(lm[8].x - lm[0].x) > 80
  THEN Conf(80) ELSE 0

detectPlease(lm, handLabel, ctx) ==
  LET history == HistoryOf(ctx)
      \* twice the centroid of landmarks 0 and 9
      xs == [k \in 1..Len(history) |->
               Landmarks(history[k])[0].x + Landmarks(history[k])[9].x]
      ys == [k \in 1..Len(history) |->
               Landmarks(history[k])[0].y + Landmarks(history[k])[9].y]
      xRange == SeqMax(xs) - SeqMin(xs)
      yRange == SeqMax(ys) - SeqMin(ys)
  IN IF Len(history) < 8 THEN 0
     ELSE IF xRange > 2 * 20 /\ xRange < 2 * 120 /\ yRange > 2 * 20 /\ yRange < 2 * 120
     THEN Conf(60) ELSE 0

\* The pattern table in its declaration order, with each entry's acceptance
\* threshold.
gesturePatterns ==
  << [name |-> "hello", confidence |-> Conf(80)],
     [name |-> "yes", confidence |-> Conf(90)],
     [name |-> "no", confidence |-> Conf(90)],
     [name |-> "thank_you", confidence |-> Conf(70)],
     [name |-> "stop", confidence |-> Conf(85)],
     [name |-> "question", confidence |-> Conf(90)],
     [name |-> "help", confidence |-> Conf(60)],
     [name |-> "wait", confidence |-> Conf(70)],
     [name |-> "go", confidence |-> Conf(80)],
     [name |-> "please", confidence |-> Conf(50)] >>

\* gestureData.pattern(landmarks, handLabel, ctx) of entry `name`.
Pattern(name, lm, handLabel, ctx) ==
  CASE name = "hello" -> detectWave(lm, handLabel, ctx)
    [] name = "yes" -> detectThumbUp(lm, handLabel)
    [] name = "no" -> detectThumbDown(lm, handLabel)
    [] name = "thank_you" -> detectThankYou(lm, handLabel, ctx)
    [] name = "stop" -> detectStop(lm, handLabel)
    [] name = "question" -> detectQuestion(lm, handLabel)
    [] name = "help" -> detectHelp(lm, handLabel, ctx)
    [] name = "wait" -> detectWait(lm, handLabel)
    [] name = "go" -> detectGo(lm, handLabel)
    [] name = "please" -> detectPlease(lm, handLabel, ctx)

\* Whether the loop over the pattern table ends in a TypeError for a hand:
\* reading .x or .y of a landmark that the array does not hold.  detectStop
\* reads landmarks[20] of every hand (isFingerExtended of finger 20, inside
\* the reduce over all four fingers), so no hand of fewer than 21 landmarks
\* gets past it; detectWave reads landmark 8 of every frame of a history of
\* 6 or more, detectPlease landmark 9 of a history of 8 or more, and
\* detectThankYou the wrists of the first two hands.
PatternsThrow(lm, ctx) ==
  LET history == HistoryOf(ctx)
  IN \/ 20 \notin DOMAIN lm
     \/ Len(history) >= 6 /\ \E k \in 1..Len(history) : 8 \notin DOMAIN Landmarks(history[k])
     \/ Len(history) >= 8 /\ \E k \in 1..Len(history) : 9 \notin DOMAIN Landmarks(history[k])
     \/ Len(ctx.allHands) >= 2 /\ \E k \in 1..2 : 0 \notin DOMAIN Landmarks(ctx.allHands[k].pose)

\* ------------------------------------------------------------------------
\* Feature extraction.  A feature vector is represented by what it is
\* computed from: the numeric vector is a function of exactly these inputs.
\* ------------------------------------------------------------------------
computeHandshapeFeatures(pose, handLabel) == <<"handshape", pose, handLabel>>
computeOrientationFeatures(pose, handLabel) == <<"orientation", pose, handLabel>>
computeLocationFeatures(pose, handLabel, allHands, handIndex) ==
  LET partnerIndex == IF handIndex = 0 THEN 1 ELSE 0
      partner == IF Len(allHands) > 1 THEN allHands[partnerIndex + 1].pose ELSE None
  IN <<"location", pose, handLabel, partner>>

\* Whether buildFeaturePacket ends in a TypeError: for a hand of 21 landmarks
\* in a frame of several hands, computeLocationFeatures calls
\* computePalmCenter on the partner hand, which reads .x of its landmarks 0,
\* 5, 9 and 13.
buildFeaturePacketThrows(pose, allHands, handIndex) ==
  LET partnerIndex == IF handIndex = 0 THEN 1 ELSE 0
  IN /\ pose # None
     /\ NumLandmarks(pose) >= 21
     /\ Len(allHands) > 1
     /\ ~({0, 5, 9, 13} \subseteq DOMAIN Landmarks(allHands[partnerIndex + 1].pose))

buildFeaturePacket(pose, handLabel, allHands, handIndex) ==
  IF pose = None \/ NumLandmarks(pose) < 21 THEN Null
  ELSE [handshape |-> computeHandshapeFeatures(pose, handLabel),
        orientation |-> computeOrientationFeatures(pose, handLabel),
        location |-> computeLocationFeatures(pose, handLabel, allHands, handIndex)]

\* ------------------------------------------------------------------------
\* Classifier bank: inference
\* ------------------------------------------------------------------------
\* A softmax model is [type, labels]; predictSoftmax returns the label of the
\* largest probability.  The probabilities are not computed here: the
\* prediction is any label of the model with any confidence of Cs that the
\* largest of |labels| probabilities can take (at least 1/|labels|).  The
\* features of a packet are always an array.
predictSoftmaxOutcomes(model, features, Cs) ==
  IF model = Null THEN {Null}
  ELSE {[label |-> l, confidence |-> c] :
          l \in model.labels,
          c \in {c \in Cs : c * Cardinality(model.labels) >= ONE}}

\* A location model is [data, k]: the stored samples with their labels.
\* predictLocationModel tallies the labels of the k nearest samples with
\* weights 1 / (distance + 0.001).  The distances are not computed here: the
\* neighbours are any k samples; when they all carry one label the confidence
\* is bestWeight / totalWeight = 1, otherwise it is any confidence of Cs, below
\* 1, that the heaviest of the labels can take.
LocationK(model) == Min2(IF model.k = 0 THEN 3 ELSE model.k, Len(model.data))

NeighbourLabelSets(model) ==
  {{model.data[i].label : i \in N} :
     N \in {N \in SUBSET (1..Len(model.data)) : Cardinality(N) = LocationK(model)}}

predictLocationModelOutcomes(model, features, Cs) ==
  IF model = Null \/ Len(model.data) = 0 THEN {Null}
  ELSE UNION {IF Cardinality(Ls) = 1
              THEN {[label |-> l, confidence |-> ONE] : l \in Ls}
              ELSE {[label |-> l, confidence |-> c] :
                      l \in Ls,
                      c \in {c \in Cs : c < ONE /\ c * Cardinality(Ls) >= ONE}} :
              Ls \in NeighbourLabelSets(model)}

\* The per-model predictions that one packet can get from the classifiers.
SubPredictions(cls, packet, Cs) ==
  IF packet = Null THEN {[handshape |-> Null, orientation |-> Null, location |-> Null]}
  ELSE [handshape : predictSoftmaxOutcomes(cls.handshape, packet.handshape, Cs),
        orientation : predictSoftmaxOutcomes(cls.orientation, packet.orientation, Cs),
        location : predictLocationModelOutcomes(cls.location, packet.location, Cs)]

clampNumber(value, min, max) ==
  IF value < min THEN min ELSE IF value > max THEN max ELSE value

\* Weight of a contribution, in tenths.
SourceWeight(source) == IF source = "location" THEN 9 ELSE 10

ModelSources == <<"handshape", "orientation", "location">>

\* A variant of predictWithTrainedModels that weighs the scores and divides
\* them by the number of contributions instead of the sum of their weights.
predictWithTrainedModelsByCount(packet, sub) ==
  LET contributions == SelectSeq(ModelSources, LAMBDA src : sub[src] # Null)
      labelAt(k) == sub[contributions[k]].label
      firsts == SelectSeq([k \in 1..Len(contributions) |-> k],
                          LAMBDA k : \A j \in 1..(k - 1) : labelAt(j) # labelAt(k))
      srcOf(l) == {k \in 1..Len(contributions) : labelAt(k) = l}
      RECURSIVE SumOver(_, _)
      SumOver(K, f) == IF K = {} THEN 0
                       ELSE LET k == CHOOSE k \in K : TRUE
                            IN f[k] + SumOver(K \ {k}, f)
      score(l) == SumOver(srcOf(l),
                          [k \in 1..Len(contributions) |->
                             sub[contributions[k]].confidence * SourceWeight(contributions[k])])
      avg(l) == score(l) \div (10 * Cardinality(srcOf(l)))
      bestK == CHOOSE k \in 1..Len(firsts) :
                 /\ \A j \in 1..Len(firsts) : avg(labelAt(firsts[j])) <= avg(labelAt(firsts[k]))
                 /\ \A j \in 1..(k - 1) : avg(labelAt(firsts[j])) < avg(labelAt(firsts[k]))
      bestLabel == labelAt(firsts[bestK])
  IN IF packet = Null THEN Null
     ELSE IF Len(contributions) = 0 THEN Null
     ELSE [label |-> bestLabel, confidence |-> clampNumber(avg(bestLabel), 0, ONE)]

\* predictWithTrainedModels, given the predictions sub[source] of the models.
predictWithTrainedModels(packet, sub) ==
  LET contributions == SelectSeq(ModelSources, LAMBDA src : sub[src] # Null)
      \* labels in the order of their first contribution (Map insertion order)
      labelAt(k) == sub[contributions[k]].label
      firsts == SelectSeq([k \in 1..Len(contributions) |-> k],
                          LAMBDA k : \A j \in 1..(k - 1) : labelAt(j) # labelAt(k))
      srcOf(l) == {k \in 1..Len(contributions) : labelAt(k) = l}
      RECURSIVE SumOver(_, _)
      SumOver(K, f) == IF K = {} THEN 0
                       ELSE LET k == CHOOSE k \in K : TRUE
                            IN f[k] + SumOver(K \ {k}, f)
      score(l) == SumOver(srcOf(l),
                          [k \in 1..Len(contributions) |->
                             sub[contributions[k]].confidence * SourceWeight(contributions[k])])
      weight(l) == SumOver(srcOf(l),
                           [k \in 1..Len(contributions) |-> SourceWeight(contributions[k])])
      avg(l) == score(l) \div weight(l)
      \* the first label, in insertion order, whose average none exceeds
      bestK == CHOOSE k \in 1..Len(firsts) :
                 /\ \A j \in 1..Len(firsts) : avg(labelAt(firsts[j])) <= avg(labelAt(firsts[k]))
                 /\ \A j \in 1..(k - 1) : avg(labelAt(firsts[j])) < avg(labelAt(firsts[k]))
      bestLabel == labelAt(firsts[bestK])
  IN IF packet = Null THEN Null
     ELSE IF Len(contributions) = 0 THEN Null
     ELSE [label |-> bestLabel, confidence |-> clampNumber(avg(bestLabel), 0, ONE)]

\* ------------------------------------------------------------------------
\* Fusion: the selection made by analyzeHandGesture
\* ------------------------------------------------------------------------
modelConfidenceThreshold == Conf(60)

NoMatch == [gesture |-> None, confidence |-> 0]

\* What every pattern of the table returns for one hand, in table order.
PatternConfidences(lm, handLabel, ctx) ==
  [k \in 1..Len(gesturePatterns) |-> Pattern(gesturePatterns[k].name, lm, handLabel, ctx)]

\* The loop over the pattern table from entry k on, best being
\* (bestMatch, bestConfidence) so far and confidences[k] what the pattern of
\* entry k returns.
RECURSIVE PatternLoop(_, _, _, _)
PatternLoop(k, best, mlPrediction, confidences) ==
  IF k > Len(gesturePatterns) THEN best
  ELSE LET gestureData == gesturePatterns[k]
           confidence == confidences[k]
           blended == (confidence + mlPrediction.confidence) \div 2
           next ==
             IF confidence > best.confidence /\ confidence >= gestureData.confidence
             THEN [gesture |-> gestureData.name, confidence |-> confidence]
             ELSE IF /\ mlPrediction # Null
                     /\ gestureData.name = mlPrediction.label
                     /\ confidence >= gestureData.confidence
                     /\ blended > best.confidence
             THEN [gesture |-> gestureData.name, confidence |-> blended]
             ELSE best
       IN PatternLoop(k + 1, next, mlPrediction, confidences)

\* The loop of analyzeHandGesture in the recognizer that has no learned
\* models, from entry k on.
RECURSIVE HeuristicLoop(_, _, _)
HeuristicLoop(k, best, confidences) ==
  IF k > Len(gesturePatterns) THEN best
  ELSE LET gestureData == gesturePatterns[k]
           confidence == confidences[k]
       IN HeuristicLoop(k + 1,
                        IF confidence > best.confidence /\ confidence >= gestureData.confidence
                        THEN [gesture |-> gestureData.name, confidence |-> confidence]
                        ELSE best,
                        confidences)

\* (bestMatch, bestConfidence) of that recognizer at its cooldown test.
SelectHeuristic(confidences) == HeuristicLoop(1, NoMatch, confidences)

\* A variant of the selection that leaves the learned prediction out and, of
\* two entries of the same confidence, takes the later.
SelectGestureLaterOnTie(mlPrediction, confidences) ==
  LET met == {k \in 1..Len(gesturePatterns) :
                confidences[k] > 0 /\ confidences[k] >= gesturePatterns[k].confidence}
      top == CHOOSE k \in met :
               /\ \A j \in met : confidences[j] <= confidences[k]
               /\ \A j \in met : j > k => confidences[j] < confidences[k]
  IN IF met = {} THEN NoMatch
     ELSE [gesture |-> gesturePatterns[top].name, confidence |-> confidences[top]]

\* A variant of the selection that leaves the learned prediction out.
SelectGestureHeuristicOnly(mlPrediction, confidences) ==
  PatternLoop(1, NoMatch, Null, confidences)

\* (bestMatch, bestConfidence) of analyzeHandGesture when it reaches the
\* cooldown test.
SelectGesture(mlPrediction, confidences) ==
  LET start == IF mlPrediction # Null /\ mlPrediction.confidence >= modelConfidenceThreshold
               THEN [gesture |-> mlPrediction.label, confidence |-> mlPrediction.confidence]
               ELSE NoMatch
      loop == PatternLoop(1, start, mlPrediction, confidences)
  IN IF loop.gesture = None /\ mlPrediction # Null
     THEN [gesture |-> mlPrediction.label, confidence |-> mlPrediction.confidence]
     ELSE IF /\ mlPrediction # Null
             /\ mlPrediction.label # loop.gesture
             /\ mlPrediction.confidence >= modelConfidenceThreshold
             /\ loop.confidence < modelConfidenceThreshold
     THEN [gesture |-> mlPrediction.label,
           confidence |-> Max2(mlPrediction.confidence, loop.confidence)]
     ELSE loop

\* ------------------------------------------------------------------------
\* State
\* ------------------------------------------------------------------------
VARIABLES
  isActive,                    \* this.isActive
  now,                         \* the last reading of Date.now()
  lastGestureTime,             \* this.lastGestureTime
  gestureCooldown,             \* this.gestureCooldown
  gestureHistory,              \* this.gestureHistory
  handHistories,               \* this.handHistories, hand index -> poses
  calibrationMode,             \* this.calibrationMode
  currentCalibrationLabel,     \* this.currentCalibrationLabel
  calibrationCounters,         \* this.calibrationCounters
  calibrationOptions,          \* this.calibrationOptions
  lastCalibrationCaptureTime,  \* this.lastCalibrationCaptureTime
  calibrationSamples,          \* this.calibrationSamples
  classifiers,                 \* this.classifiers
  storage,                     \* window.localStorage, the two records
  frames,                      \* number of frames processed so far
  run,                         \* the run of frames selecting one gesture for hand 0
  session,                     \* the frames fed since the last startCalibration
  calls,                       \* number of calls of the calibration API so far
  twin,                        \* a second recognizer fed the same frames, or NoTwin
  last                         \* the last call of the calibration API or frame
                               \* processed: arguments, events, outcome

vars ==
  << isActive, now, lastGestureTime, gestureCooldown, gestureHistory,
     handHistories, calibrationMode, currentCalibrationLabel,
     calibrationCounters, calibrationOptions, lastCalibrationCaptureTime,
     calibrationSamples, classifiers, storage, frames, run, session, calls,
     twin, last >>

\* Labels a user can calibrate: the name of a built-in gesture and new ones.
CalLabels == {"yes", "A", "B"}
HandIndexes == {0, 1}
SampleTypes == {"handshape", "orientation", "location"}

maxHistoryLength == 10
maxPoseHistory == 12
maxCalibrationSamplesPerLabel == 180

\* JavaScript truthiness of a label
Truthy(label) == label # None /\ label # ""

EmptyStore == [l \in CalLabels |-> << >>]
EmptySamples == [handshape |-> EmptyStore, orientation |-> EmptyStore, location |-> EmptyStore]
NoClassifiers == [handshape |-> Null, orientation |-> Null, location |-> Null]
DefaultOptions == [captureInterval |-> 120, targetSamples |-> 60, autoTrain |-> TRUE]

\* ------------------------------------------------------------------------
\* Persistence
\* ------------------------------------------------------------------------
\* JSON.stringify and JSON.parse of the classifiers and of the sample store,
\* which are objects of three members.  A null member is written as the token
\* null; a sample store is written as an object with one member per label
\* that has samples (the store has no other keys), a model as an object of
\* its fields.  Arrays of finite numbers and strings are written as they
\* are: appendCalibrationSample lets no other number into a store.
NullText == [text |-> "null"]
StoredLabels(store) == {l \in CalLabels : Len(store[l]) > 0}

Stringify(member) ==
  IF member = Null THEN NullText
  ELSE IF DOMAIN member = CalLabels
  THEN [object |-> [l \in StoredLabels(member) |-> member[l]]]
  ELSE [object |-> member]

Parse(text) ==
  IF text = NullText THEN Null
  ELSE IF DOMAIN text.object \subseteq CalLabels
  THEN [l \in CalLabels |-> IF l \in DOMAIN text.object THEN text.object[l] ELSE << >>]
  ELSE text.object

JSONstringify(value) == [json |-> [t \in DOMAIN value |-> Stringify(value[t])]]
JSONparse(text) == [t \in DOMAIN text.json |-> Parse(text.json[t])]

\* A record that JSON.parse rejects with a SyntaxError.
Unparsable == [corrupt |-> TRUE]

EmptyStorage == [models |-> Null, samples |-> Null]

\* A variant of persistModels that drops the models when the store fails.
persistModelsOrForget(eng, io) ==
  CASE io = "ok" ->
         [eng EXCEPT !.storage = [models |-> JSONstringify(eng.classifiers),
                                  samples |-> JSONstringify(eng.calibrationSamples)]]
    [] OTHER -> [eng EXCEPT !.classifiers = NoClassifiers]

\* persistModels.  io is the condition of the store during the call:
\* "ok", "unavailable" (no window.localStorage), "throws-first" (the first
\* setItem throws), "throws-second" (the second setItem throws).
persistModels(eng, io) ==
  CASE io = "ok" ->
         [eng EXCEPT !.storage = [models |-> JSONstringify(eng.classifiers),
                                  samples |-> JSONstringify(eng.calibrationSamples)]]
    [] io = "throws-second" ->
         [eng EXCEPT !.storage.models = JSONstringify(eng.classifiers)]
    [] OTHER -> eng

\* ------------------------------------------------------------------------
\* Classifier bank: training
\* ------------------------------------------------------------------------
RECURSIVE FlattenLabels(_, _)
\* flattenSamples: the entries {label, features} of a store, label by label.
\* Object.entries enumerates the labels in insertion order; Order fixes one.
FlattenLabels(store, order) ==
  IF Len(order) = 0 THEN << >>
  ELSE [k \in 1..Len(store[Head(order)]) |->
          [label |-> Head(order), features |-> store[Head(order)][k]]]
       \o FlattenLabels(store, Tail(order))

LabelOrder == <<"yes", "A", "B">>
flattenSamples(store) == FlattenLabels(store, LabelOrder)

DatasetLabels(dataset) == {dataset[k].label : k \in 1..Len(dataset)}

MinHandshapeSamples == 8
MinOrientationSamples == 6
MinLocationSamples == 3
MaxNeighbours == 5

\* Variants of the softmax trainings that settle for one sample less.
trainHandshapeModelOneLess(samples) ==
  LET dataset == flattenSamples(samples.handshape)
  IN IF Len(dataset) < MinHandshapeSamples - 1 \/ Cardinality(DatasetLabels(dataset)) < 2
     THEN Null
     ELSE [type |-> "softmax", labels |-> DatasetLabels(dataset)]

trainHandshapeModel(samples) ==
  LET dataset == flattenSamples(samples.handshape)
  IN IF Len(dataset) < MinHandshapeSamples \/ Cardinality(DatasetLabels(dataset)) < 2
     THEN Null
     ELSE [type |-> "softmax", labels |-> DatasetLabels(dataset)]

trainOrientationModel(samples) ==
  LET dataset == flattenSamples(samples.orientation)
  IN IF Len(dataset) < MinOrientationSamples \/ Cardinality(DatasetLabels(dataset)) < 2
     THEN Null
     ELSE [type |-> "softmax", labels |-> DatasetLabels(dataset)]

\* A variant of the location training that settles for one sample less.
trainLocationModelOneLess(samples) ==
  LET dataset == flattenSamples(samples.location)
  IN IF Len(dataset) < MinLocationSamples - 1 THEN Null
     ELSE [data |-> dataset, k |-> Min2(MaxNeighbours, Len(dataset))]

trainLocationModel(samples) ==
  LET dataset == flattenSamples(samples.location)
  IN IF Len(dataset) < MinLocationSamples THEN Null
     ELSE [data |-> dataset, k |-> Min2(MaxNeighbours, Len(dataset))]

\* The summary entry of one model type.
Summary(type, samples, model) ==
  [type |-> type, samples |-> Len(flattenSamples(samples[type])), trained |-> model # Null]

trainModels(eng, io) ==
  LET cls == [handshape |-> trainHandshapeModel(eng.calibrationSamples),
              orientation |-> trainOrientationModel(eng.calibrationSamples),
              location |-> trainLocationModel(eng.calibrationSamples)]
  IN persistModels([eng EXCEPT !.classifiers = cls, !.trainings = @ + 1], io)

TrainingSummary(eng) ==
  [t \in SampleTypes |-> Summary(t, eng.calibrationSamples, eng.classifiers[t])]

\* ------------------------------------------------------------------------
\* Operations on the engine.  eng is the engine's mutable state as a record,
\* together with what the running handler has done so far: the events it
\* emitted, the training passes it ran and, per hand of a frame, the outcome.
\* ------------------------------------------------------------------------
emit(eng, event, data) ==
  [eng EXCEPT !.emitted = Append(@, [event |-> event, detail |-> data])]

\* An argument object is a record that holds the properties passed; Has
\* tells whether a property is there (it is undefined otherwise).
Has(args, field) == field \in DOMAIN args
NoArgs == << >>

\* A variant of the training policy in which autoTrain cannot be overridden.
ShouldTrainAutoWins(args, options) ==
  options.autoTrain \/ (Has(args, "train") /\ args.train)

\* typeof train === "boolean" ? train : this.calibrationOptions.autoTrain
ShouldTrain(args, options) ==
  IF Has(args, "train") THEN args.train ELSE options.autoTrain

stopCalibration(eng, args, io) ==
  IF ~eng.calibrationMode THEN eng
  ELSE LET shouldTrain == ShouldTrain(args, eng.calibrationOptions)
           idle == [eng EXCEPT !.calibrationMode = FALSE,
                               !.currentCalibrationLabel = None]
           stopped == emit(idle, "calibration-stopped",
                           [label |-> eng.currentCalibrationLabel,
                            samples |-> eng.calibrationCounters.collected,
                            trained |-> shouldTrain])
           trained == IF shouldTrain THEN trainModels(stopped, io) ELSE stopped
           persisted == persistModels(trained, io)
       IN IF shouldTrain
          THEN emit(persisted, "calibration-trained", TrainingSummary(persisted))
          ELSE persisted

\* A variant of cancelCalibration that stops under the default policy.
cancelCalibrationDefaultPolicy(eng, io) ==
  IF ~eng.calibrationMode THEN eng ELSE stopCalibration(eng, NoArgs, io)

cancelCalibration(eng, io) ==
  IF ~eng.calibrationMode THEN eng ELSE stopCalibration(eng, [train |-> FALSE], io)

\* options.targetSamples ?? options.target ?? this.calibrationOptions.targetSamples
TargetOf(options, current) ==
  IF Has(options, "targetSamples") THEN options.targetSamples
  ELSE IF Has(options, "target") THEN options.target
  ELSE current.targetSamples

\* A variant of the merge that starts from the default options instead of
\* the stored ones.
MergeOptionsOverDefaults(current, options) ==
  [captureInterval |-> IF Has(options, "captureInterval")
                       THEN options.captureInterval ELSE DefaultOptions.captureInterval,
   autoTrain |-> IF Has(options, "autoTrain") THEN options.autoTrain
                 ELSE DefaultOptions.autoTrain,
   targetSamples |-> TargetOf(options, DefaultOptions)]

\* { ...this.calibrationOptions, ...options, targetSamples: target }; an
\* option that is not passed leaves the stored one alone.
MergeOptions(current, options) ==
  [captureInterval |-> IF Has(options, "captureInterval")
                       THEN options.captureInterval ELSE current.captureInterval,
   autoTrain |-> IF Has(options, "autoTrain") THEN options.autoTrain ELSE current.autoTrain,
   targetSamples |-> TargetOf(options, current)]

\* A variant of startCalibration without the guard on the label.
startCalibrationUnguarded(eng, label, options) ==
  LET target == TargetOf(options, eng.calibrationOptions)
      merged == MergeOptions(eng.calibrationOptions, options)
      started == [eng EXCEPT !.calibrationMode = TRUE,
                             !.currentCalibrationLabel = label,
                             !.calibrationOptions = merged,
                             !.calibrationCounters = [collected |-> 0, target |-> target],
                             !.lastCalibrationCaptureTime = 0]
  IN emit(started, "calibration-started", [label |-> label, options |-> merged])

startCalibration(eng, label, options) ==
  IF ~Truthy(label) THEN eng
  ELSE LET target == TargetOf(options, eng.calibrationOptions)
           merged == MergeOptions(eng.calibrationOptions, options)
           started == [eng EXCEPT !.calibrationMode = TRUE,
                                  !.currentCalibrationLabel = label,
                                  !.calibrationOptions = merged,
                                  !.calibrationCounters = [collected |-> 0, target |-> target],
                                  !.lastCalibrationCaptureTime = 0]
       IN emit(started, "calibration-started", [label |-> label, options |-> merged])

\* A variant of appendCalibrationSample that, at the cap, drops the new
\* sample instead of the oldest.
appendCalibrationSampleKeepOldest(store, label, features) ==
  IF ~Truthy(label) THEN store
  ELSE LET pushed == Append(store[label], features)
       IN [store EXCEPT ![label] =
             IF Len(pushed) > maxCalibrationSamplesPerLabel THEN store[label] ELSE pushed]

\* appendCalibrationSample.  The features are always an array and every
\* feature is finite (clampNumber turns a non-finite value into 0), so the
\* guards on Array.isArray and Number.isFinite never reject.
appendCalibrationSample(store, label, features) ==
  IF ~Truthy(label) THEN store
  ELSE LET pushed == Append(store[label], features)
       IN [store EXCEPT ![label] =
             IF Len(pushed) > maxCalibrationSamplesPerLabel THEN Tail(pushed) ELSE pushed]

\* Variants of the throttle: one that asks for more than the interval, one
\* that never holds a capture back.
CaptureDueStrict(t, lastCapture, interval) == t - lastCapture > interval
CaptureDueAlways(t, lastCapture, interval) == TRUE

\* now - this.lastCalibrationCaptureTime < interval makes the capture return
CaptureDue(t, lastCapture, interval) == ~(t - lastCapture < interval)

\* A variant of captureCalibrationSample that stores no location sample.
captureCalibrationSampleNoLocation(eng, label, pose, handLabel, handIndex, allHands, t, io) ==
  LET interval == eng.calibrationOptions.captureInterval
      packet == buildFeaturePacket(pose, handLabel, allHands, handIndex)
      samples == eng.calibrationSamples
      stored == [handshape |-> appendCalibrationSample(samples.handshape, label, packet.handshape),
                 orientation |-> appendCalibrationSample(samples.orientation, label, packet.orientation),
                 location |-> samples.location]
      collected == eng.calibrationCounters.collected + 1
      counted == [eng EXCEPT !.calibrationSamples = stored,
                             !.calibrationCounters.collected = collected,
                             !.lastCalibrationCaptureTime = t,
                             !.captured = Append(@, handIndex)]
      progressed == emit(counted, "calibration-progress",
                         [label |-> label, collected |-> collected,
                          target |-> eng.calibrationCounters.target])
      flushed == IF collected % 10 = 0 THEN persistModels(progressed, io) ELSE progressed
  IN IF ~eng.calibrationMode \/ ~Truthy(label) \/ pose = None THEN eng
     ELSE IF ~CaptureDue(t, eng.lastCalibrationCaptureTime, interval) THEN eng
     ELSE IF packet = Null THEN eng
     ELSE IF eng.calibrationCounters.target # 0
             /\ collected >= eng.calibrationCounters.target
     THEN stopCalibration(flushed, NoArgs, io)
     ELSE flushed

\* A variant of captureCalibrationSample that, at the target, stops the
\* session before it reports the progress.
captureCalibrationSampleStopsFirst(eng, label, pose, handLabel, handIndex, allHands, t, io) ==
  LET interval == eng.calibrationOptions.captureInterval
      packet == buildFeaturePacket(pose, handLabel, allHands, handIndex)
      samples == eng.calibrationSamples
      stored == [handshape |-> appendCalibrationSample(samples.handshape, label, packet.handshape),
                 orientation |-> appendCalibrationSample(samples.orientation, label, packet.orientation),
                 location |-> appendCalibrationSample(samples.location, label, packet.location)]
      collected == eng.calibrationCounters.collected + 1
      counted == [eng EXCEPT !.calibrationSamples = stored,
                             !.calibrationCounters.collected = collected,
                             !.lastCalibrationCaptureTime = t,
                             !.captured = Append(@, handIndex)]
      progress == [label |-> label, collected |-> collected,
                   target |-> eng.calibrationCounters.target]
  IN IF ~eng.calibrationMode \/ ~Truthy(label) \/ pose = None THEN eng
     ELSE IF ~CaptureDue(t, eng.lastCalibrationCaptureTime, interval) THEN eng
     ELSE IF packet = Null THEN eng
     ELSE IF eng.calibrationCounters.target # 0
             /\ collected >= eng.calibrationCounters.target
     THEN emit(stopCalibration(counted, NoArgs, io), "calibration-progress", progress)
     ELSE emit(counted, "calibration-progress", progress)

captureCalibrationSample(eng, label, pose, handLabel, handIndex, allHands, t, io) ==
  LET interval == eng.calibrationOptions.captureInterval
      packet == buildFeaturePacket(pose, handLabel, allHands, handIndex)
      samples == eng.calibrationSamples
      stored == [handshape |-> appendCalibrationSample(samples.handshape, label, packet.handshape),
                 orientation |-> appendCalibrationSample(samples.orientation, label, packet.orientation),
                 location |-> appendCalibrationSample(samples.location, label, packet.location)]
      collected == eng.calibrationCounters.collected + 1
      counted == [eng EXCEPT !.calibrationSamples = stored,
                             !.calibrationCounters.collected = collected,
                             !.lastCalibrationCaptureTime = t,
                             !.captured = Append(@, handIndex)]
      progressed == emit(counted, "calibration-progress",
                         [label |-> label, collected |-> collected,
                          target |-> eng.calibrationCounters.target])
      flushed == IF collected % 10 = 0 THEN persistModels(progressed, io) ELSE progressed
  IN IF ~eng.calibrationMode \/ ~Truthy(label) \/ pose = None THEN eng
     ELSE IF ~CaptureDue(t, eng.lastCalibrationCaptureTime, interval) THEN eng
     ELSE IF packet = Null THEN eng
     ELSE IF eng.calibrationCounters.target # 0
             /\ collected >= eng.calibrationCounters.target
     THEN stopCalibration(flushed, NoArgs, io)
     ELSE flushed

\* Variants of the cooldown test: one that lets a gesture through when
\* exactly the cooldown has passed, one that only asks for a later reading.
CooldownElapsedInclusive(currentTime, lastTime, cooldown) ==
  currentTime - lastTime >= cooldown
CooldownElapsedAnyLater(currentTime, lastTime, cooldown) ==
  currentTime - lastTime > 0

\* currentTime - this.lastGestureTime > this.gestureCooldown
CooldownElapsed(currentTime, lastTime, cooldown) == currentTime - lastTime > cooldown

handleGestureDetection(eng, gesture, confidence, pose, t) ==
  LET pushed == Append(eng.gestureHistory,
                       [gesture |-> gesture, confidence |-> confidence,
                        timestamp |-> t, landmarks |-> pose])
      kept == IF Len(pushed) > maxHistoryLength THEN Tail(pushed) ELSE pushed
  IN emit([eng EXCEPT !.gestureHistory = kept], "gesture-detected",
          [gesture |-> gesture, confidence |-> confidence,
           landmarks |-> pose, timestamp |-> t])

\* A variant of analyzeHandGesture that does not run the patterns while a
\* calibration session is open: every pattern counts as returning 0.
analyzeHandGestureIdleInSession(eng, pose, packet, confidences, t, cooldown, sub) ==
  LET mlPrediction == IF packet # Null THEN predictWithTrainedModels(packet, sub) ELSE Null
      seen == IF eng.calibrationMode THEN [k \in DOMAIN confidences |-> 0] ELSE confidences
      best == SelectGesture(mlPrediction, seen)
      fire == best.gesture # None /\ CooldownElapsed(t, eng.lastGestureTime, cooldown)
      outcome == [ml |-> mlPrediction, selected |-> best, emitted |-> fire, time |-> t,
                  error |-> None, confidences |-> seen]
      done == [eng EXCEPT !.out = Append(@, outcome)]
  IN IF fire
     THEN [handleGestureDetection(done, best.gesture, best.confidence, pose, t)
             EXCEPT !.lastGestureTime = t]
     ELSE done

\* A variant of analyzeHandGesture that emits without recording the time of
\* the event in lastGestureTime.
analyzeHandGestureKeepsLastTime(eng, pose, packet, confidences, t, cooldown, sub) ==
  LET mlPrediction == IF packet # Null THEN predictWithTrainedModels(packet, sub) ELSE Null
      best == SelectGesture(mlPrediction, confidences)
      fire == best.gesture # None /\ CooldownElapsed(t, eng.lastGestureTime, cooldown)
      outcome == [ml |-> mlPrediction, selected |-> best, emitted |-> fire, time |-> t,
                  error |-> None, confidences |-> confidences]
      done == [eng EXCEPT !.out = Append(@, outcome)]
  IN IF fire
     THEN handleGestureDetection(done, best.gesture, best.confidence, pose, t)
     ELSE done

\* analyzeHandGesture for one hand: packet is its feature packet,
\* confidences what the patterns return for it, sub the predictions of the
\* models for the packet.  The outcome of the hand is appended to eng.out.
analyzeHandGesture(eng, pose, packet, confidences, t, cooldown, sub) ==
  LET mlPrediction == IF packet # Null THEN predictWithTrainedModels(packet, sub) ELSE Null
      best == SelectGesture(mlPrediction, confidences)
      fire == best.gesture # None /\ CooldownElapsed(t, eng.lastGestureTime, cooldown)
      outcome == [ml |-> mlPrediction, selected |-> best, emitted |-> fire, time |-> t,
                  error |-> None, confidences |-> confidences]
      done == [eng EXCEPT !.out = Append(@, outcome)]
  IN IF fire
     THEN [handleGestureDetection(done, best.gesture, best.confidence, pose, t)
             EXCEPT !.lastGestureTime = t]
     ELSE done

\* analyzeHandGesture for a hand whose patterns end in a TypeError: nothing
\* is selected or emitted, and the error leaves the handler.
analyzeHandGestureThrows(eng, t) ==
  [eng EXCEPT !.out = Append(@, [ml |-> Null, selected |-> NoMatch, emitted |-> FALSE,
                                 time |-> t, error |-> "TypeError",
                                 confidences |-> << >>])]

\* The second forEach of processHandResults from hand i on (i counts from
\* 1): the set of engine states it can end in, one per choice of the models'
\* predictions.  clock[i] is the reading of Date.now() while hand i is handled.
\* An error thrown for a hand ends the loop: the hands after it are not
\* handled.  buildFeaturePacket is called by the capture, when one is due,
\* before it stores anything, and by analyzeHandGesture before it runs the
\* patterns: when it throws, the hand leaves the engine as it was.
RECURSIVE HandsLoop(_, _, _, _, _, _, _, _)
HandsLoop(i, eng, allHands, histories, clock, cooldown, io, Cs) ==
  IF i > Len(allHands) THEN {eng}
  ELSE LET hand == allHands[i]
           captured ==
             IF eng.calibrationMode /\ Truthy(eng.currentCalibrationLabel)
             THEN captureCalibrationSample(eng, eng.currentCalibrationLabel, hand.pose,
                                           hand.label, i - 1, allHands, clock[i], io)
             ELSE eng
           packet == buildFeaturePacket(hand.pose, hand.label, allHands, i - 1)
           ctx == [allHands |-> allHands, handIndex |-> i - 1, histories |-> histories]
           confidences == PatternConfidences(Landmarks(hand.pose), hand.label, ctx)
       IN IF buildFeaturePacketThrows(hand.pose, allHands, i - 1)
          THEN {analyzeHandGestureThrows(eng, clock[i])}
          ELSE IF PatternsThrow(Landmarks(hand.pose), ctx)
          THEN {analyzeHandGestureThrows(captured, clock[i])}
          ELSE UNION {HandsLoop(i + 1,
                                analyzeHandGesture(captured, hand.pose, packet, confidences,
                                                   clock[i], cooldown, sub),
                                allHands, histories, clock, cooldown, io, Cs) :
                      sub \in SubPredictions(captured.classifiers, packet, Cs)}

\* A variant of the push that, once a history is full, drops the new
\* observation instead of the oldest.
PushHistoriesKeepOldest(histories, allHands) ==
  [i \in HandIndexes |->
     IF i + 1 <= Len(allHands) /\ Len(histories[i]) < maxPoseHistory
     THEN Append(histories[i], allHands[i + 1].pose)
     ELSE histories[i]]

\* A variant of the push that forgets the history of every index the frame
\* does not show.
PushHistoriesOfShown(histories, allHands) ==
  [i \in HandIndexes |->
     IF i + 1 <= Len(allHands)
     THEN LET pushed == Append(histories[i], allHands[i + 1].pose)
          IN IF Len(pushed) > maxPoseHistory THEN Tail(pushed) ELSE pushed
     ELSE << >>]

\* The first forEach of processHandResults: every hand's landmarks are pushed
\* on the history of its index, which keeps the last maxPoseHistory of them.
PushHistories(histories, allHands) ==
  [i \in HandIndexes |->
     IF i + 1 <= Len(allHands)
     THEN LET pushed == Append(histories[i], allHands[i + 1].pose)
          IN IF Len(pushed) > maxPoseHistory THEN Tail(pushed) ELSE pushed
     ELSE histories[i]]

NoHistories == [i \in HandIndexes |-> << >>]

\* A variant of the end of processHandResults that keeps the histories.
KeepHistories(allHands, histories) == histories

\* if (allHands.length === 0) this.handHistories = {}
ClearedHistories(allHands, histories) ==
  IF Len(allHands) = 0 THEN NoHistories ELSE histories

\* A variant of restoreModels that reads the models and leaves the samples.
restoreModelsOnly(eng, io) ==
  IF io = "unavailable" \/ eng.storage.models = Unparsable \/ eng.storage.models = Null
  THEN eng
  ELSE [eng EXCEPT !.classifiers = JSONparse(eng.storage.models)]

\* restoreModels: the classifiers and samples after reading the two records.
\* A record that does not parse throws inside the try block: what was
\* assigned before stays, the rest of the block is skipped and the error is
\* logged.
restoreModels(eng, io) ==
  IF io = "unavailable" THEN eng
  ELSE IF eng.storage.models = Unparsable THEN eng
  ELSE LET cls == IF eng.storage.models # Null
                  THEN JSONparse(eng.storage.models) ELSE eng.classifiers
           smp == IF eng.storage.samples # Null
                  THEN JSONparse(eng.storage.samples) ELSE eng.calibrationSamples
       IN IF eng.storage.samples = Unparsable
          THEN [eng EXCEPT !.classifiers = cls]
          ELSE emit([eng EXCEPT !.classifiers = cls, !.calibrationSamples = smp],
                    "calibration-loaded",
                    [t \in SampleTypes |-> StoredLabels(smp[t])])

\* A variant of clearCalibrationData that keeps the classifiers.
clearCalibrationDataSamplesOnly(eng, io) ==
  persistModels([eng EXCEPT !.calibrationSamples = EmptySamples], io)

clearCalibrationData(eng, io) ==
  persistModels([eng EXCEPT !.calibrationSamples = EmptySamples,
                            !.classifiers = NoClassifiers], io)

\* ------------------------------------------------------------------------
\* Bounds
\* ------------------------------------------------------------------------
\* Date.now() when the recognizer is constructed; larger than every cooldown
\* and capture interval, as the wall clock is.
Epoch == 5000
\* Frames processed in one behaviour of each specification.
MaxFusionFrames == 1
MaxCooldownFrames == 3
MaxCalibrationFrames == 2
\* Calls of the calibration API in one behaviour.
MaxCalibrationCalls == 2
\* Frames of the stream that fills the pose histories.
MaxHistoryFrames == 13
\* Frames of the stream fed to two recognizers.
MaxTwinFrames == 8
\* Frames fed to a recognizer that starts from stored samples.
MaxTrainFrames == 1
\* Frames fed to a recognizer that starts with an empty store.
MaxLifecycleFrames == 3
\* Frames of a stream in which a hand can come with 5 landmarks.
MaxPartialFrames == 3
\* Frames fed to recognizers that share a store over reloads of the page.
MaxPersistFrames == 2
\* Frames fed to a recognizer whose data is cleared.
MaxClearFrames == 4
\* Frames fed to a recognizer whose store is at the cap.
MaxCapFrames == 3

\* ------------------------------------------------------------------------
\* Initial state: the constructor, which ends with restoreModels()
\* ------------------------------------------------------------------------
Constructed(store, io) ==
  restoreModels([calibrationMode |-> FALSE,
                 currentCalibrationLabel |-> None,
                 calibrationCounters |-> [collected |-> 0, target |-> 0],
                 calibrationOptions |-> DefaultOptions,
                 lastCalibrationCaptureTime |-> 0,
                 calibrationSamples |-> EmptySamples,
                 classifiers |-> NoClassifiers,
                 storage |-> store,
                 lastGestureTime |-> 0,
                 gestureHistory |-> << >>,
                 emitted |-> << >>, trainings |-> 0, captured |-> << >>, out |-> << >>],
                io)

\* The engine's state as a record, at the start of a handler.
Eng ==
  [calibrationMode |-> calibrationMode,
   currentCalibrationLabel |-> currentCalibrationLabel,
   calibrationCounters |-> calibrationCounters,
   calibrationOptions |-> calibrationOptions,
   lastCalibrationCaptureTime |-> lastCalibrationCaptureTime,
   calibrationSamples |-> calibrationSamples,
   classifiers |-> classifiers,
   storage |-> storage,
   lastGestureTime |-> lastGestureTime,
   gestureHistory |-> gestureHistory,
   emitted |-> << >>, trainings |-> 0, captured |-> << >>, out |-> << >>]

\* What `last` records of a finished handler.
Record(op, args, eng) ==
  [op |-> op, args |-> args, emitted |-> eng.emitted, trainings |-> eng.trainings,
   captured |-> eng.captured, out |-> eng.out]

\* The engine's fields after a handler that ended in eng.
Commit(eng) ==
  /\ calibrationMode' = eng.calibrationMode
  /\ currentCalibrationLabel' = eng.currentCalibrationLabel
  /\ calibrationCounters' = eng.calibrationCounters
  /\ calibrationOptions' = eng.calibrationOptions
  /\ lastCalibrationCaptureTime' = eng.lastCalibrationCaptureTime
  /\ calibrationSamples' = eng.calibrationSamples
  /\ classifiers' = eng.classifiers
  /\ storage' = eng.storage
  /\ lastGestureTime' = eng.lastGestureTime
  /\ gestureHistory' = eng.gestureHistory

NoRun == [gesture |-> None, events |-> 0, lastEmit |-> 0]

\* What is known of the calibration session since the last startCalibration
\* with a label: the label and target, whether the call passed targetSamples
\* alone, whether the label had no stored sample, the frames fed since and
\* the training passes they ran.  steady tells that since the call there
\* were only frames of one hand of 21 landmarks, each at least
\* captureInterval after the one before.
NoSession ==
  [label |-> None, target |-> 0, exact |-> FALSE, fresh |-> FALSE,
   frames |-> 0, trainings |-> 0, steady |-> FALSE]

StartedSession(label, options, eng) ==
  [label |-> label,
   target |-> eng.calibrationCounters.target,
   exact |-> DOMAIN options = {"targetSamples"},
   fresh |-> \A t \in SampleTypes : Len(calibrationSamples[t][label]) = 0,
   frames |-> 0, trainings |-> 0, steady |-> TRUE]

FedSession(allHands, dt, eng) ==
  IF ~session.steady THEN session
  ELSE IF /\ Len(allHands) = 1
          /\ NumLandmarks(allHands[1].pose) = 21
          /\ (session.frames = 0 \/ dt >= calibrationOptions.captureInterval)
  THEN [session EXCEPT !.frames = @ + 1, !.trainings = @ + eng.trainings]
  ELSE [session EXCEPT !.steady = FALSE]

Interrupted == [session EXCEPT !.steady = FALSE]

\* No second recognizer has been constructed.
NoTwin == [constructed |-> FALSE]

InitWith(stores) ==
  \E store \in stores :
    LET eng == Constructed(store, "ok")
    IN /\ isActive = FALSE
       /\ now = Epoch
       /\ gestureCooldown = 1000
       /\ handHistories = NoHistories
       /\ calibrationMode = eng.calibrationMode
       /\ currentCalibrationLabel = eng.currentCalibrationLabel
       /\ calibrationCounters = eng.calibrationCounters
       /\ calibrationOptions = eng.calibrationOptions
       /\ lastCalibrationCaptureTime = eng.lastCalibrationCaptureTime
       /\ calibrationSamples = eng.calibrationSamples
       /\ classifiers = eng.classifiers
       /\ storage = eng.storage
       /\ lastGestureTime = eng.lastGestureTime
       /\ gestureHistory = eng.gestureHistory
       /\ frames = 0
       /\ run = NoRun
       /\ session = NoSession
       /\ calls = 0
       /\ twin = NoTwin
       /\ last = Record("constructor", [io |-> "ok"], eng)

\* ------------------------------------------------------------------------
\* Actions
\* ------------------------------------------------------------------------
EngineVars ==
  << calibrationMode, currentCalibrationLabel, calibrationCounters,
     calibrationOptions, lastCalibrationCaptureTime, calibrationSamples,
     classifiers, storage, lastGestureTime, gestureHistory >>

\* start(): the camera came up and the recognizer is active.
Start ==
  /\ ~isActive
  /\ isActive' = TRUE
  /\ UNCHANGED << twin, now, gestureCooldown, handHistories, frames, run, session, calls, last, EngineVars >>

\* stop()
Stop ==
  /\ isActive
  /\ isActive' = FALSE
  /\ UNCHANGED << twin, now, gestureCooldown, handHistories, frames, run, session, calls, last, EngineVars >>

SetGestureCooldown(ms) ==
  /\ gestureCooldown' = ms
  /\ UNCHANGED << twin, isActive, now, handHistories, frames, run, session, calls, last, EngineVars >>

StartCalibration(label, options) ==
  LET eng == startCalibration(Eng, label, options)
  IN /\ Commit(eng)
     /\ last' = Record("startCalibration",
                       [label |-> label, options |-> options, recording |-> calibrationMode],
                       eng)
     /\ session' = IF Truthy(label) THEN StartedSession(label, options, eng) ELSE session
     /\ calls < MaxCalibrationCalls
     /\ calls' = calls + 1
     /\ UNCHANGED << twin, isActive, now, gestureCooldown, handHistories, frames, run >>

StopCalibration(args, io) ==
  LET eng == stopCalibration(Eng, args, io)
  IN /\ Commit(eng)
     /\ last' = Record("stopCalibration", [options |-> args, io |-> io], eng)
     /\ session' = Interrupted
     /\ calls < MaxCalibrationCalls
     /\ calls' = calls + 1
     /\ UNCHANGED << twin, isActive, now, gestureCooldown, handHistories, frames, run >>

CancelCalibration(io) ==
  LET eng == cancelCalibration(Eng, io)
  IN /\ Commit(eng)
     /\ last' = Record("cancelCalibration", [io |-> io], eng)
     /\ session' = Interrupted
     /\ calls < MaxCalibrationCalls
     /\ calls' = calls + 1
     /\ UNCHANGED << twin, isActive, now, gestureCooldown, handHistories, frames, run >>

ClearCalibrationData(io) ==
  LET eng == clearCalibrationData(Eng, io)
  IN /\ Commit(eng)
     /\ last' = Record("clearCalibrationData", [io |-> io], eng)
     /\ session' = Interrupted
     /\ calls < MaxCalibrationCalls
     /\ calls' = calls + 1
     /\ UNCHANGED << twin, isActive, now, gestureCooldown, handHistories, frames, run >>

\* new GestureRecognizer() in a page that is loaded again: the recognizer
\* before it is gone, the store is what it left.
Reload(io) ==
  LET eng == Constructed(storage, io)
  IN /\ Commit(eng)
     /\ isActive' = FALSE
     /\ gestureCooldown' = 1000
     /\ handHistories' = NoHistories
     /\ run' = NoRun
     /\ session' = NoSession
     /\ last' = Record("constructor", [io |-> io], eng)
     /\ UNCHANGED << twin, now, frames, calls >>

\* The patterns of the single-hand detectors called on one hand, outside of
\* a frame: what each returns for the landmarks lm and the handedness
\* handLabel, with no second hand and no history.
ApplyPatterns(lm, handLabel) ==
  LET ctx == [allHands |-> <<[pose |-> None, label |-> handLabel]>>, handIndex |-> 0,
              histories |-> NoHistories]
  IN /\ last' = [op |-> "pattern",
                 args |-> [landmarks |-> lm, handLabel |-> handLabel],
                 emitted |-> << >>, trainings |-> 0, captured |-> << >>,
                 out |-> [yes |-> detectThumbUp(lm, handLabel),
                          no |-> detectThumbDown(lm, handLabel),
                          stop |-> detectStop(lm, handLabel),
                          question |-> detectQuestion(lm, handLabel),
                          help |-> detectHelp(lm, handLabel, ctx),
                          wait |-> detectWait(lm, handLabel),
                          go |-> detectGo(lm, handLabel)]]
     /\ UNCHANGED << twin, isActive, now, gestureCooldown, handHistories, frames, run,
                     session, calls, EngineVars >>

\* The run of frames in which hand 0 selects one and the same gesture, after
\* a frame whose hands ended with the outcomes out.
NextRun(out) ==
  IF Len(out) = 0 \/ out[1].selected.gesture = None THEN NoRun
  ELSE LET g == out[1].selected.gesture
           before == IF run.gesture = g THEN run ELSE [NoRun EXCEPT !.gesture = g]
       IN IF out[1].emitted
          THEN [before EXCEPT !.events = @ + 1, !.lastEmit = out[1].time]
          ELSE before

\* processHandResults(results) while the recognizer is active.  allHands is
\* the frame's hands (pose and handedness label), dt the time since the last
\* reading of the clock, drift the time the clock advances between two hands
\* of the frame, io the condition of the store, Cs the confidences the models
\* can give.
FeedFrame(allHands, dt, drift, io, Cs, maxFrames) ==
  /\ isActive
  /\ frames < maxFrames
  /\ LET clock == [i \in 1..Len(allHands) |-> now + dt + (i - 1) * drift]
         histories == PushHistories(handHistories, allHands)
     IN \E eng \in HandsLoop(1, Eng, allHands, histories, clock, gestureCooldown, io, Cs) :
          /\ Commit(eng)
          /\ handHistories' = ClearedHistories(allHands, histories)
          /\ now' = IF Len(allHands) = 0 THEN now + dt ELSE clock[Len(eng.out)]
          /\ frames' = frames + 1
          /\ run' = NextRun(eng.out)
          /\ session' = FedSession(allHands, dt, eng)
          /\ last' = Record("processHandResults",
                            [hands |-> allHands, clock |-> clock, io |-> io], eng)
  /\ UNCHANGED << isActive, gestureCooldown, calls >>

\* A frame handled by the recognizer alone.
ProcessFrame(allHands, dt, drift, io, Cs, maxFrames) ==
  /\ FeedFrame(allHands, dt, drift, io, Cs, maxFrames)
  /\ UNCHANGED twin

\* processHandResults while the recognizer is not active returns at once.
IgnoreFrame ==
  /\ ~isActive
  /\ UNCHANGED vars

\* ------------------------------------------------------------------------
\* Specification of recognition: frames are fused by a recognizer that
\* starts with nothing stored or with what an earlier session persisted
\* (two samples of "yes", one of "A", models trained).
\* ------------------------------------------------------------------------
Hand(pose, label) == [pose |-> pose, label |-> label]

SeedCapture(samples, label, pose) ==
  [handshape |-> appendCalibrationSample(samples.handshape, label,
                                         computeHandshapeFeatures(pose, None)),
   orientation |-> appendCalibrationSample(samples.orientation, label,
                                           computeOrientationFeatures(pose, None)),
   location |-> appendCalibrationSample(samples.location, label,
                                        computeLocationFeatures(pose, None, <<Hand(pose, None)>>, 0))]

SeededSamples ==
  SeedCapture(SeedCapture(SeedCapture(EmptySamples, "yes", "ThumbUp"), "yes", "ThumbUp"),
              "A", "Fist")

SeededStorage ==
  [models |-> JSONstringify([handshape |-> trainHandshapeModel(SeededSamples),
                             orientation |-> trainOrientationModel(SeededSamples),
                             location |-> trainLocationModel(SeededSamples)]),
   samples |-> JSONstringify(SeededSamples)]

FusionFrames ==
  { << >>,
    <<Hand("Fist", None)>>,
    <<Hand("ThumbUp", None)>>,
    <<Hand("ThumbUp", "Left")>>,
    <<Hand("OpenPalm", None)>>,
    <<Hand("Point", None)>>,
    <<Hand("ThumbUp", None), Hand("FistHigh", None)>>,
    <<Hand("Fist", None), Hand("FistRight", None)>> }

FusionConfs == {Conf(55), Conf(70), Conf(95)}
FusionSteps == {0, 1001}

InitFusion == InitWith({EmptyStorage, SeededStorage})

NextFusion ==
  \/ Start
  \/ \E allHands \in FusionFrames, dt \in FusionSteps :
       ProcessFrame(allHands, dt, 0, "ok", FusionConfs, MaxFusionFrames)
  \/ IgnoreFrame

SpecFusion == InitFusion /\ [][NextFusion]_vars

\* ------------------------------------------------------------------------
\* Specification of the cooldown: frames at different times, under a
\* cooldown that the settings can change, with no learned model.
\* ------------------------------------------------------------------------
CooldownFrames ==
  { << >>,
    <<Hand("Fist", None)>>,
    <<Hand("ThumbUp", None)>>,
    <<Hand("OpenPalm", None)>>,
    <<Hand("ThumbUp", None), Hand("OpenPalm", None)>> }

CooldownSteps == {0, 1000, 1001}
Cooldowns == {0, 500, 1000}
ClockDrifts == {0, 1}

InitCooldown == InitWith({EmptyStorage})

NextCooldown ==
  \/ Start
  \/ Stop
  \/ \E ms \in Cooldowns : SetGestureCooldown(ms)
  \/ \E allHands \in CooldownFrames, dt \in CooldownSteps, drift \in ClockDrifts :
       ProcessFrame(allHands, dt, drift, "ok", {}, MaxCooldownFrames)
  \/ IgnoreFrame

SpecCooldown == InitCooldown /\ [][NextCooldown]_vars

\* ------------------------------------------------------------------------
\* Specification of calibration: sessions are started, fed with frames,
\* stopped, cancelled and cleared, by a recognizer that starts with nothing
\* stored or with the samples and models of an earlier session (three
\* samples of "yes", of which the location model was trained).
\* ------------------------------------------------------------------------
RECURSIVE SeedCaptures(_, _, _, _)
SeedCaptures(samples, label, pose, n) ==
  IF n = 0 THEN samples
  ELSE SeedCaptures(SeedCapture(samples, label, pose), label, pose, n - 1)

TrainedSamples == SeedCaptures(EmptySamples, "yes", "ThumbUp", 3)

TrainedStorage ==
  [models |-> JSONstringify([handshape |-> trainHandshapeModel(TrainedSamples),
                             orientation |-> trainOrientationModel(TrainedSamples),
                             location |-> trainLocationModel(TrainedSamples)]),
   samples |-> JSONstringify(TrainedSamples)]

\* The calls of startCalibration: without a label, with an empty one, and
\* with the label "B" under different options.
CalibrationRequests ==
  { <<None, NoArgs>>,
    <<"", [targetSamples |-> 2]>>,
    <<"B", NoArgs>>,
    <<"B", [targetSamples |-> 2]>>,
    <<"B", [target |-> 1, autoTrain |-> FALSE]>>,
    <<"B", [captureInterval |-> 1]>> }

StopRequests == {NoArgs, [train |-> TRUE], [train |-> FALSE]}
CalibrationFrames == { <<Hand("Fist", None)>> }
CalibrationSteps == {0, 120}
CalibrationConfs == {Conf(70)}

InitCalib == InitWith({EmptyStorage, TrainedStorage})

NextCalib ==
  \/ Start
  \/ \E request \in CalibrationRequests : StartCalibration(request[1], request[2])
  \/ \E args \in StopRequests : StopCalibration(args, "ok")
  \/ CancelCalibration("ok")
  \/ ClearCalibrationData("ok")
  \/ \E allHands \in CalibrationFrames, dt \in CalibrationSteps :
       ProcessFrame(allHands, dt, 0, "ok", CalibrationConfs, MaxCalibrationFrames)
  \/ IgnoreFrame

SpecCalib == InitCalib /\ [][NextCalib]_vars

\* ------------------------------------------------------------------------
\* Specification of a calibration session: sessions are started, under
\* different options, and fed with frames of one hand and of two hands, at
\* or within the capture interval, until the target stops them.
\* ------------------------------------------------------------------------
SessionRequests ==
  { <<"B", [targetSamples |-> 2]>>,
    <<"B", [target |-> 1, autoTrain |-> FALSE]>>,
    <<"B", [captureInterval |-> 1]>> }

SessionFrames ==
  { <<Hand("Fist", None)>>,
    <<Hand("Fist", None), Hand("FistRight", None)>> }

SessionSteps == {0, 120}

InitSession == InitWith({EmptyStorage, TrainedStorage})

NextSession ==
  \/ Start
  \/ \E request \in SessionRequests : StartCalibration(request[1], request[2])
  \/ \E allHands \in SessionFrames, dt \in SessionSteps, drift \in ClockDrifts :
       ProcessFrame(allHands, dt, drift, "ok", CalibrationConfs, MaxCalibrationFrames)
  \/ IgnoreFrame

SpecSession == InitSession /\ [][NextSession]_vars

\* ------------------------------------------------------------------------
\* Specification of the pose histories: a stream of frames of no, one or two
\* hands, in which the observation of a hand changes from frame to frame,
\* so that the observations kept by a history tell which ones were evicted.
\* ------------------------------------------------------------------------
StreamPoses == <<"Fist", "FistRight", "FistHigh">>
StreamPose(k) == StreamPoses[(k % Len(StreamPoses)) + 1]

\* Frame k of the stream when it shows n hands.
StreamFrame(k, n) == [i \in 1..n |-> Hand(StreamPose(k + i - 1), None)]

HandCounts == {0, 1, 2}

InitHistory == InitWith({EmptyStorage})

NextHistory ==
  \/ Start
  \/ Stop
  \/ \E n \in HandCounts :
       ProcessFrame(StreamFrame(frames, n), 0, 0, "ok", {}, MaxHistoryFrames)
  \/ IgnoreFrame

SpecHistory == InitHistory /\ [][NextHistory]_vars

\* ------------------------------------------------------------------------
\* Specification of two runs: before the first frame a second recognizer is
\* constructed from a store that holds trained models, and may be put in a
\* calibration session; every frame of the stream is then handled by both,
\* each with its own clock.  The recognizer of the other specifications
\* starts from an empty store and is never calibrated.
\* ------------------------------------------------------------------------
TwinCounts == {0, 1}
TwinConfs == {Conf(70)}
\* Time between two frames on the clock of each recognizer.
FrameInterval == 1001
TwinFrameInterval == 120

\* new GestureRecognizer() for the second recognizer.
ConstructTwin(store) ==
  /\ twin = NoTwin
  /\ frames = 0
  /\ twin' = [constructed |-> TRUE, eng |-> Constructed(store, "ok"),
              handHistories |-> NoHistories, now |-> Epoch]
  /\ UNCHANGED << isActive, now, gestureCooldown, handHistories, frames, run, session,
                  calls, last, EngineVars >>

\* startCalibration(label, options) on the second recognizer.
TwinStartCalibration(label, options) ==
  /\ twin # NoTwin
  /\ ~twin.eng.calibrationMode
  /\ twin' = [twin EXCEPT !.eng = startCalibration(@, label, options)]
  /\ UNCHANGED << isActive, now, gestureCooldown, handHistories, frames, run, session,
                  calls, last, EngineVars >>

\* processHandResults(results) of both recognizers for the same frame.
ProcessFrameInBoth(allHands, maxFrames) ==
  /\ twin # NoTwin
  /\ FeedFrame(allHands, FrameInterval, 0, "ok", {}, maxFrames)
  /\ LET clock == [i \in 1..Len(allHands) |-> twin.now + TwinFrameInterval]
         histories == PushHistories(twin.handHistories, allHands)
         before == [twin.eng EXCEPT !.emitted = << >>, !.trainings = 0,
                                    !.captured = << >>, !.out = << >>]
     IN \E eng \in HandsLoop(1, before, allHands, histories, clock, 1000, "ok", TwinConfs) :
          twin' = [constructed |-> TRUE, eng |-> eng,
                   handHistories |-> ClearedHistories(allHands, histories),
                   now |-> twin.now + TwinFrameInterval]

InitTwin == InitWith({EmptyStorage})

NextTwin ==
  \/ Start
  \/ ConstructTwin(TrainedStorage)
  \/ TwinStartCalibration("B", NoArgs)
  \/ \E n \in TwinCounts : ProcessFrameInBoth(StreamFrame(frames, n), MaxTwinFrames)
  \/ IgnoreFrame

SpecTwin == InitTwin /\ [][NextTwin]_vars

\* ------------------------------------------------------------------------
\* Specification of training: a recognizer that starts from what an earlier
\* session stored (samples around the minimum counts of the models, of one
\* label or of two, or models whose samples were lost) records and trains.
\* ------------------------------------------------------------------------
StoredWith(samples) ==
  [models |-> JSONstringify([handshape |-> trainHandshapeModel(samples),
                             orientation |-> trainOrientationModel(samples),
                             location |-> trainLocationModel(samples)]),
   samples |-> JSONstringify(samples)]

EightSamples == SeedCaptures(SeedCaptures(EmptySamples, "yes", "ThumbUp", 5), "A", "Fist", 3)
SevenSamples == SeedCaptures(SeedCaptures(EmptySamples, "yes", "ThumbUp", 4), "A", "Fist", 3)
FiveSamples == SeedCaptures(SeedCaptures(EmptySamples, "yes", "ThumbUp", 3), "A", "Fist", 2)
OneLabelSamples == SeedCaptures(EmptySamples, "yes", "ThumbUp", 8)

\* The models record was written and the samples record was not.
ModelsOnlyStorage == [StoredWith(EightSamples) EXCEPT !.samples = Null]

TrainStorages ==
  { EmptyStorage, StoredWith(EightSamples), StoredWith(SevenSamples),
    StoredWith(FiveSamples), StoredWith(OneLabelSamples), ModelsOnlyStorage }

TrainRequests == { <<"B", [targetSamples |-> 1]>>, <<"yes", NoArgs>> }
TrainFrames == { <<Hand("Fist", None)>> }

InitTrain == InitWith(TrainStorages)

NextTrain ==
  \/ Start
  \/ \E request \in TrainRequests : StartCalibration(request[1], request[2])
  \/ \E args \in StopRequests : StopCalibration(args, "ok")
  \/ \E allHands \in TrainFrames :
       ProcessFrame(allHands, 120, 0, "ok", CalibrationConfs, MaxTrainFrames)
  \/ IgnoreFrame

SpecTrain == InitTrain /\ [][NextTrain]_vars

\* ------------------------------------------------------------------------
\* Specification of the models' lifecycle: a recognizer that starts with
\* nothing stored records two labels, from frames of two hands whose second
\* hand is handled a millisecond after the first, trains and resets.
\* ------------------------------------------------------------------------
LifecycleRequests ==
  { <<"B", [captureInterval |-> 1]>>,
    <<"A", [targetSamples |-> 2]>> }

LifecycleFrames ==
  { <<Hand("Fist", None), Hand("FistRight", None)>>,
    <<Hand("ThumbUp", None), Hand("OpenPalm", None)>> }

InitLifecycle == InitWith({EmptyStorage})

NextLifecycle ==
  \/ Start
  \/ \E request \in LifecycleRequests : StartCalibration(request[1], request[2])
  \/ StopCalibration(NoArgs, "ok")
  \/ ClearCalibrationData("ok")
  \/ \E allHands \in LifecycleFrames :
       ProcessFrame(allHands, 120, 1, "ok", CalibrationConfs, MaxLifecycleFrames)
  \/ IgnoreFrame

SpecLifecycle == InitLifecycle /\ [][NextLifecycle]_vars

\* ------------------------------------------------------------------------
\* Specification of partial hands: the tracker delivers frames in which a
\* hand has 5 landmarks instead of 21, alone or next to a whole hand, while
\* the recognizer recognizes or records.
\* ------------------------------------------------------------------------
PartialFrames ==
  { <<Hand("Partial", None)>>,
    <<Hand("ThumbUp", None)>>,
    <<Hand("ThumbUp", None), Hand("Partial", None)>>,
    <<Hand("Partial", "Left"), Hand("ThumbUp", None)>> }

PartialSteps == {0, 1200}

InitPartial == InitWith({EmptyStorage, TrainedStorage})

NextPartial ==
  \/ Start
  \/ StartCalibration("B", NoArgs)
  \/ \E allHands \in PartialFrames, dt \in PartialSteps :
       ProcessFrame(allHands, dt, 0, "ok", CalibrationConfs, MaxPartialFrames)
  \/ IgnoreFrame

SpecPartial == InitPartial /\ [][NextPartial]_vars

\* ------------------------------------------------------------------------
\* Specification of persistence: the page is loaded, records and trains,
\* and is loaded again over the store it left.  The store can be missing,
\* can reject the first or the second write of a persist, and can hold a
\* record that does not parse when the first page is loaded.
\* ------------------------------------------------------------------------
IOConditions == {"ok", "unavailable", "throws-first", "throws-second"}

UnparsableModels == [TrainedStorage EXCEPT !.models = Unparsable]
UnparsableSamples == [TrainedStorage EXCEPT !.samples = Unparsable]

InitPersist == InitWith({EmptyStorage, UnparsableModels, UnparsableSamples})

NextPersist ==
  \/ Start
  \/ \E request \in LifecycleRequests : StartCalibration(request[1], request[2])
  \/ \E io \in IOConditions : StopCalibration(NoArgs, io)
  \/ \E io \in IOConditions : ClearCalibrationData(io)
  \/ \E allHands \in LifecycleFrames, io \in {"ok", "throws-second"} :
       ProcessFrame(allHands, 120, 1, io, CalibrationConfs, MaxPersistFrames)
  \/ IgnoreFrame
  \/ \E io \in {"ok", "unavailable"} : Reload(io)

SpecPersist == InitPersist /\ [][NextPersist]_vars

\* ------------------------------------------------------------------------
\* Specification of clearing: a recognizer that restored trained models is
\* cleared, while the store takes the write or rejects it, and records a
\* label again up to a target of four samples.
\* ------------------------------------------------------------------------
InitClear == InitWith({TrainedStorage})

NextClear ==
  \/ Start
  \/ StartCalibration("B", [captureInterval |-> 1, targetSamples |-> 4])
  \/ \E io \in {"ok", "throws-first"} : ClearCalibrationData(io)
  \/ \E allHands \in LifecycleFrames :
       ProcessFrame(allHands, 120, 1, "ok", CalibrationConfs, MaxClearFrames)
  \/ IgnoreFrame

SpecClear == InitClear /\ [][NextClear]_vars

\* ------------------------------------------------------------------------
\* Specification of the cap: the recognizer restores a store that an
\* earlier session filled with 179 or 180 samples of label "B", the oldest
\* from a raised fist, and records "B" or "A" again.  No model is trained.
\* ------------------------------------------------------------------------
CapSamples(n) ==
  [t \in SampleTypes |->
     [l \in CalLabels |->
        IF l = "B"
        THEN [k \in 1..n |->
                LET pose == IF k = 1 THEN "FistHigh" ELSE "Fist"
                IN buildFeaturePacket(pose, None, <<Hand(pose, None)>>, 0)[t]]
        ELSE << >>]]

UntrainedStorage(samples) ==
  [models |-> JSONstringify(NoClassifiers), samples |-> JSONstringify(samples)]

CapFrames == { <<Hand("FistRight", None)>>, <<Hand("Fist", None)>> }
CapSteps == {0, 120}

InitCap ==
  InitWith({UntrainedStorage(CapSamples(maxCalibrationSamplesPerLabel - 1)),
            UntrainedStorage(CapSamples(maxCalibrationSamplesPerLabel))})

NextCap ==
  \/ Start
  \/ \E label \in {"A", "B"} : StartCalibration(label, NoArgs)
  \/ \E allHands \in CapFrames, dt \in CapSteps :
       ProcessFrame(allHands, dt, 0, "ok", CalibrationConfs, MaxCapFrames)
  \/ IgnoreFrame

SpecCap == InitCap /\ [][NextCap]_vars

\* ------------------------------------------------------------------------
\* Specification of the detectors: the single-hand patterns are called on
\* hands of 21 landmarks, those of the raised thumb with the wrist, the tip
\* of the thumb and the tip of the index finger moved, of every handedness.
\* ------------------------------------------------------------------------
WristYs == {450, 550, 800}
ThumbTipXs == {360, 395}
ThumbTipYs == {200, 500, 560, 700}
IndexTipYs == {430, 570, 600}

ThumbHands ==
  {[ThumbUpLm EXCEPT ![0].y = wy, ![4].x = tx, ![4].y = ty, ![8].y = iy] :
     wy \in WristYs, tx \in ThumbTipXs, ty \in ThumbTipYs, iy \in IndexTipYs}

InitPatterns == InitWith({EmptyStorage})

NextPatterns == \E lm \in ThumbHands, handLabel \in HandLabels : ApplyPatterns(lm, handLabel)

SpecPatterns == InitPatterns /\ [][NextPatterns]_vars

\* ------------------------------------------------------------------------
\* Properties
\* ------------------------------------------------------------------------
\* The hands of the frame that `last` records, and what the patterns return
\* for hand i of it (the histories are those the frame left behind).
IsFrame(rec) == rec.op = "processHandResults"
FrameHands(rec) == rec.args.hands

HandConfidences(i) ==
  LET hand == FrameHands(last)[i]
  IN PatternConfidences(Landmarks(hand.pose), hand.label,
                        [allHands |-> FrameHands(last), handIndex |-> i - 1,
                         histories |-> handHistories])

\* The table entries whose pattern meets its own threshold for hand i.
Candidates(i) ==
  {k \in 1..Len(gesturePatterns) : HandConfidences(i)[k] >= gesturePatterns[k].confidence}

\* The best heuristic match of hand i: the first entry of the highest
\* confidence among the candidates.
BestHeuristic(i) ==
  CHOOSE k \in Candidates(i) :
    /\ \A j \in Candidates(i) : HandConfidences(i)[j] <= HandConfidences(i)[k]
    /\ \A j \in Candidates(i) : j < k => HandConfidences(i)[j] < HandConfidences(i)[k]

\* The learned prediction of hand i of the last frame meets the floor.
LearnedPresent(i) ==
  /\ last.out[i].ml # Null
  /\ last.out[i].ml.confidence >= modelConfidenceThreshold

\* The gesture-detected events among the events of a handler.
GestureEvents(rec) ==
  SelectSeq(rec.emitted, LAMBDA e : e.event = "gesture-detected")

\* The events that the hands of a frame must emit, from hand i on, when the
\* last event was at lastTime: a hand emits its selected gesture when its
\* time is more than cooldown after the event before it.
RECURSIVE ExpectedEvents(_, _, _, _)
ExpectedEvents(out, i, lastTime, cooldown) ==
  IF i > Len(out) THEN << >>
  ELSE IF out[i].selected.gesture # None /\ out[i].time - lastTime > cooldown
  THEN <<[gesture |-> out[i].selected.gesture, timestamp |-> out[i].time]>>
       \o ExpectedEvents(out, i + 1, out[i].time, cooldown)
  ELSE ExpectedEvents(out, i + 1, lastTime, cooldown)

\* C1: a selected gesture is emitted exactly when the time since the last
\* emitted event, whichever hand and gesture it came from, is strictly
\* greater than gestureCooldown; each event sets lastGestureTime to its time.
\* For a step that processes a frame: the hands that select a gesture more
\* than gestureCooldown after the preceding event are the ones whose gesture
\* is emitted, in order, and lastGestureTime follows the last event.
C1_CooldownGatesEmission ==
  [][(frames' = frames + 1) =>
       LET expected == ExpectedEvents(last'.out, 1, lastGestureTime, gestureCooldown)
           events == GestureEvents(last')
       IN /\ Len(events) = Len(expected)
          /\ \A k \in 1..Len(events) :
               /\ events[k].detail.gesture = expected[k].gesture
               /\ events[k].detail.timestamp = expected[k].timestamp
          /\ lastGestureTime' = IF Len(events) = 0 THEN lastGestureTime
                                ELSE events[Len(events)].detail.timestamp]_vars

\* C1 witness: a frame of two hands that selected different gestures at the
\* same time, of which only the first was emitted.
C1_Witness ==
  /\ IsFrame(last)
  /\ Len(last.out) = 2
  /\ last.out[1].selected.gesture # None
  /\ last.out[2].selected.gesture # None
  /\ last.out[1].selected.gesture # last.out[2].selected.gesture
  /\ Len(GestureEvents(last)) = 1
  /\ GestureEvents(last)[1].detail.gesture = last.out[1].selected.gesture

\* C2 as claimed: a pose selected in every frame of an unbroken run of frames
\* is emitted as a single event for the whole run.
C2_SingleEventPerRun == run.events <= 1

\* C2 as amended: two events of one run are more than gestureCooldown apart.
C2_RunEventsSpacedByCooldown ==
  [][(run'.gesture = run.gesture /\ run.events >= 1 /\ run'.events > run.events)
       => run'.lastEmit - run.lastEmit > gestureCooldown]_vars

\* C2 witness: a run in which the gesture was emitted a second time.
C2_Witness == run.gesture # None /\ run.events = 2

\* C3 as claimed: when no pattern meets its threshold and the learned
\* prediction is absent or below modelConfidenceThreshold, no gesture is
\* selected and none is emitted.
C3_NoCandidateNoGesture ==
  IsFrame(last) =>
    \A i \in 1..Len(last.out) :
      (Candidates(i) = {} /\ ~LearnedPresent(i))
        => /\ last.out[i].selected.gesture = None
           /\ ~last.out[i].emitted

\* C4 as claimed: when the learned prediction meets the floor and the pattern
\* named like its label meets its threshold, that label, when selected, is
\* selected with the confidence (h + m) / 2.
C4_BlendedConfidence ==
  IsFrame(last) =>
    \A i \in 1..Len(last.out) :
      \A k \in Candidates(i) :
        (/\ LearnedPresent(i)
         /\ gesturePatterns[k].name = last.out[i].ml.label
         /\ last.out[i].selected.gesture = last.out[i].ml.label)
          => last.out[i].selected.confidence =
               (HandConfidences(i)[k] + last.out[i].ml.confidence) \div 2

\* C5: when the learned prediction (meeting the floor) and the best heuristic
\* match name different gestures, the one of the higher confidence is
\* selected; when only one of the two is there, it is selected with its own
\* confidence.
C5_HigherConfidenceWins ==
  IsFrame(last) =>
    \A i \in 1..Len(last.out) :
      LET ml == last.out[i].ml
          sel == last.out[i].selected
          k == BestHeuristic(i)
          h == HandConfidences(i)[k]
          heuristic == [gesture |-> gesturePatterns[k].name, confidence |-> h]
          learned == [gesture |-> ml.label, confidence |-> ml.confidence]
      IN /\ (LearnedPresent(i) /\ Candidates(i) # {} /\ gesturePatterns[k].name # ml.label)
              => /\ h > ml.confidence => sel = heuristic
                 /\ ml.confidence > h => sel = learned
         /\ (~LearnedPresent(i) /\ Candidates(i) # {}) => sel = heuristic
         /\ (LearnedPresent(i) /\ Candidates(i) = {}) => sel = learned

\* C5 witness: a hand whose learned prediction beat a heuristic match of
\* another name.
C5_Witness ==
  /\ IsFrame(last)
  /\ \E i \in 1..Len(last.out) :
       /\ LearnedPresent(i)
       /\ Candidates(i) # {}
       /\ gesturePatterns[BestHeuristic(i)].name # last.out[i].ml.label
       /\ last.out[i].ml.confidence > HandConfidences(i)[BestHeuristic(i)]
       /\ last.out[i].selected.gesture = last.out[i].ml.label

\* The session of `session` has just been fed its target number of frames:
\* startCalibration(label, {targetSamples: T}) for a label without stored
\* samples, 1 <= T <= maxCalibrationSamplesPerLabel, then T frames of one
\* valid hand, each at least captureInterval after the one before.
RoundTripDone ==
  /\ session.steady
  /\ session.exact
  /\ session.fresh
  /\ session.target >= 1
  /\ session.target <= maxCalibrationSamplesPerLabel
  /\ session.frames = session.target

RoundTripOutcome ==
  /\ \A t \in SampleTypes : Len(calibrationSamples[t][session.label]) = session.target
  /\ ~calibrationMode
  /\ session.trainings = 1

\* C6 as claimed: after startCalibration(label, {targetSamples: T}) for a
\* label without stored samples and T frames of one valid hand spaced at
\* least captureInterval apart, each of the three stores holds exactly T
\* samples of the label, the session is idle and exactly one training pass
\* has run.
C6_RoundTrip == RoundTripDone => RoundTripOutcome

\* C6 as amended: the same, provided calibrationOptions.autoTrain is true.
C6_RoundTripWhenAutoTrain ==
  (RoundTripDone /\ calibrationOptions.autoTrain) => RoundTripOutcome

\* C6 witness: a round trip of two frames that ended with a training pass.
C6_Witness ==
  /\ RoundTripDone
  /\ session.target = 2
  /\ calibrationOptions.autoTrain
  /\ IsFrame(last)
  /\ last.trainings = 1

\* C7: cancelCalibration during recording leaves the session idle, runs no
\* training pass, and leaves the three classifiers and the sample store as
\* they were.
C7_CancelKeepsModelsAndSamples ==
  [][(calibrationMode /\ last'.op = "cancelCalibration")
       => /\ ~calibrationMode'
          /\ last'.trainings = 0
          /\ \A k \in 1..Len(last'.emitted) : last'.emitted[k].event # "calibration-trained"
          /\ classifiers' = classifiers
          /\ calibrationSamples' = calibrationSamples]_vars

\* C7 witness: a session that had captured a sample, under autoTrain, was
\* cancelled.
C7_Witness ==
  /\ last.op = "cancelCalibration"
  /\ Len(last.emitted) > 0
  /\ last.emitted[1].event = "calibration-stopped"
  /\ last.emitted[1].detail.samples >= 1
  /\ calibrationOptions.autoTrain
  /\ Len(calibrationSamples.handshape["B"]) >= 1

\* C8: stopCalibration during recording leaves the session idle; it runs one
\* training pass, which sets the three classifiers to what their training
\* gives for the stored samples, if and only if train is true, or train is
\* not a boolean and calibrationOptions.autoTrain is true.
C8_StopTrainsIff ==
  [][(calibrationMode /\ last'.op = "stopCalibration")
       => LET passed == last'.args.options
              explicit == "train" \in DOMAIN passed
              wanted == \/ explicit /\ passed.train
                        \/ ~explicit /\ calibrationOptions.autoTrain
          IN /\ ~calibrationMode'
             /\ wanted <=> last'.trainings = 1
             /\ ~wanted <=> last'.trainings = 0
             /\ wanted => classifiers' =
                            [handshape |-> trainHandshapeModel(calibrationSamples),
                             orientation |-> trainOrientationModel(calibrationSamples),
                             location |-> trainLocationModel(calibrationSamples)]
             /\ ~wanted => classifiers' = classifiers]_vars

\* C8 witness: a recording session under autoTrain was stopped with an
\* explicit train: false and was not trained.
C8_Witness ==
  /\ last.op = "stopCalibration"
  /\ "train" \in DOMAIN last.args.options
  /\ ~last.args.options.train
  /\ calibrationOptions.autoTrain
  /\ Len(last.emitted) = 1
  /\ last.emitted[1].event = "calibration-stopped"
  /\ last.trainings = 0

\* C9: startCalibration with a missing or empty label changes neither the
\* mode, the label, the counters nor the options and emits no event; with a
\* non-empty label, from idle or from recording, it leaves the session
\* recording that label with collected = 0 and the target that was asked for
\* (options.targetSamples, else options.target, else the stored target).
C9_StartCalibration ==
  [][(last'.op = "startCalibration")
       => LET label == last'.args.label
              passed == last'.args.options
              requested == IF "targetSamples" \in DOMAIN passed THEN passed.targetSamples
                           ELSE IF "target" \in DOMAIN passed THEN passed.target
                           ELSE calibrationOptions.targetSamples
          IN IF label = None \/ label = ""
             THEN /\ UNCHANGED << calibrationMode, currentCalibrationLabel,
                                  calibrationCounters, calibrationOptions >>
                  /\ last'.emitted = << >>
             ELSE /\ calibrationMode'
                  /\ currentCalibrationLabel' = label
                  /\ calibrationCounters' = [collected |-> 0, target |-> requested]]_vars

\* C9 witness: startCalibration with a label was called while a session was
\* recording and had captured a sample.
C9_Witness ==
  /\ last.op = "startCalibration"
  /\ last.args.recording
  /\ last.args.label = "B"
  /\ Len(calibrationSamples.handshape["B"]) >= 1
  /\ calibrationCounters.collected = 0

\* The stores after the step hold a sample that they did not hold before.
GainsSamples ==
  \E t \in SampleTypes, l \in CalLabels :
    Len(calibrationSamples'[t][l]) > Len(calibrationSamples[t][l])

\* Times of the captures of the frame that rec records.
CaptureTimes(rec) ==
  [k \in 1..Len(rec.captured) |-> rec.args.clock[rec.captured[k] + 1]]

C11_HistoryKeepsMostRecent ==
  [][(frames' = frames + 1 /\ Len(FrameHands(last')) > 0) =>
       \A i \in HandIndexes :
         LET before == handHistories[i]
             after == handHistories'[i]
         IN /\ Len(after) <= 12
            /\ IF i + 1 > Len(FrameHands(last')) THEN after = before
               ELSE /\ after[Len(after)] = FrameHands(last')[i + 1].pose
                    /\ IF Len(before) < 12
                       THEN SubSeq(after, 1, Len(after) - 1) = before
                       ELSE /\ Len(after) = 12
                            /\ SubSeq(after, 1, 11) = SubSeq(before, 2, 12)]_vars

\* C11 witness: the history of hand 0 is full after more frames than it
\* holds, and ends with the observation of the last frame.
C11_Witness ==
  /\ IsFrame(last)
  /\ frames = 13
  /\ Len(handHistories[0]) = 12
  /\ handHistories[0][12] = StreamPose(12)
  /\ handHistories[0][1] = StreamPose(1)

\* C12: after the active recognizer has processed a frame without hands, the
\* pose history of every hand index is empty.
C12_NoHandsClearsHistories ==
  [][(frames' = frames + 1 /\ Len(FrameHands(last')) = 0) =>
       \A i \in HandIndexes : handHistories'[i] = << >>]_vars

\* C12 witness: a frame without hands was processed, as the third frame or
\* later, and left both histories empty.
C12_Witness ==
  /\ IsFrame(last)
  /\ Len(FrameHands(last)) = 0
  /\ frames >= 3
  /\ \A i \in HandIndexes : handHistories[i] = << >>

\* Number of samples and labels of a store.
SampleCount(store) == Len(store["yes"]) + Len(store["A"]) + Len(store["B"])
LabelCount(store) == Cardinality({l \in CalLabels : Len(store[l]) > 0})

\* C13: after a training pass the handshape model is non-null only if the
\* handshape store holds at least 8 samples over at least 2 labels, and the
\* orientation model only if its store holds at least 6 samples over at
\* least 2 labels; otherwise the model is null after the pass, whatever it
\* was before, and the pass completes (calibration-trained is emitted).
C13_SoftmaxNeedsSamplesAndLabels ==
  [][(last' # last /\ last'.trainings >= 1) =>
       /\ classifiers'.handshape # Null
            <=> (SampleCount(calibrationSamples'.handshape) >= 8
                 /\ LabelCount(calibrationSamples'.handshape) >= 2)
       /\ classifiers'.orientation # Null
            <=> (SampleCount(calibrationSamples'.orientation) >= 6
                 /\ LabelCount(calibrationSamples'.orientation) >= 2)
       /\ \E k \in 1..Len(last'.emitted) : last'.emitted[k].event = "calibration-trained"]_vars

\* C13 witness: a training pass over seven samples of two labels left the
\* handshape model null and the orientation model trained.
C13_Witness ==
  /\ last.trainings = 1
  /\ SampleCount(calibrationSamples.handshape) = 7
  /\ LabelCount(calibrationSamples.handshape) = 2
  /\ classifiers.handshape = Null
  /\ classifiers.orientation # Null

\* The least number of samples that the training of a type asks for.
MinSamples(t) ==
  CASE t = "handshape" -> 8
    [] t = "orientation" -> 6
    [] t = "location" -> 3

\* C14 as claimed: starting from an empty store, a model is non-null only
\* if its store held at least 2 labels and the minimum count of its type at
\* the last training pass.  Between two passes a store only grows, so the
\* store of a non-null model holds them still.
C14_ModelsNeedTwoLabels ==
  \A t \in SampleTypes :
    classifiers[t] # Null =>
      /\ SampleCount(calibrationSamples[t]) >= MinSamples(t)
      /\ LabelCount(calibrationSamples[t]) >= 2

\* C14 as amended: starting from an empty store, a model becomes non-null
\* only in a training pass over a store of at least the minimum count of its
\* type and, for the handshape and orientation models, at least 2 labels;
\* the location model asks for 3 samples of any labels.  Every other change
\* of a model sets it to null.
C14_ModelsNeedSamples ==
  [][\A t \in SampleTypes :
       (classifiers'[t] # Null /\ classifiers'[t] # classifiers[t]) =>
         /\ last' # last
         /\ last'.trainings >= 1
         /\ SampleCount(calibrationSamples'[t]) >= MinSamples(t)
         /\ t # "location" => LabelCount(calibrationSamples'[t]) >= 2]_vars

\* C14 witness: from an empty store, six samples of two labels trained the
\* orientation and location models and left the handshape model null.
C14_Witness ==
  /\ classifiers.orientation # Null
  /\ classifiers.location # Null
  /\ classifiers.handshape = Null
  /\ SampleCount(calibrationSamples.handshape) = 6

\* C15: a frame with a hand of fewer than 21 landmarks raises no error:
\* every hand of the frame is handled, and for the short hand no sample is
\* stored and no gesture is emitted.
C15_ShortHandRaisesNothing ==
  last.op = "processHandResults" =>
    \A i \in 1..Len(last.args.hands) :
      NumLandmarks(last.args.hands[i].pose) < 21 =>
        /\ Len(last.out) = Len(last.args.hands)
        /\ \A k \in 1..Len(last.out) : last.out[k].error = None
        /\ ~last.out[i].emitted
        /\ \A k \in 1..Len(last.captured) : last.captured[k] # i - 1

\* Whether the handler recorded in l emitted the event.
Emitted(l, event) == \E k \in 1..Len(l.emitted) : l.emitted[k].event = event

\* Whether the handler recorded in l ended with a persist that wrote both
\* records: clearCalibrationData, or a stopCalibration that went past its
\* guard (called, or run by the capture that reached the target).
PersistedAll(l) ==
  \/ l.op = "clearCalibrationData" /\ l.args.io = "ok"
  \/ /\ l.op \in {"stopCalibration", "processHandResults"}
     /\ l.args.io = "ok"
     /\ Emitted(l, "calibration-stopped")

InMemory(eng) ==
  << eng.calibrationMode, eng.currentCalibrationLabel, eng.calibrationCounters,
     eng.calibrationOptions, eng.lastCalibrationCaptureTime,
     eng.calibrationSamples, eng.classifiers, eng.emitted >>

C18_ClearedUntilTrained ==
  [][/\ (calls' = calls + 1 /\ last'.op = "clearCalibrationData") =>
          /\ calibrationSamples' = EmptySamples
          /\ classifiers' = NoClassifiers
          /\ last'.args.io = "ok" =>
               storage' = [models |-> JSONstringify(NoClassifiers),
                           samples |-> JSONstringify(EmptySamples)]
     /\ (classifiers = NoClassifiers /\ classifiers' # NoClassifiers) =>
          /\ last' # last
          /\ last'.trainings >= 1
          /\ \E k \in 1..Len(last'.emitted) :
               /\ last'.emitted[k].event = "calibration-trained"
               /\ \E t \in SampleTypes : last'.emitted[k].detail[t].trained
     /\ (frames' = frames + 1 /\ classifiers = NoClassifiers) =>
          \A i \in 1..Len(last'.out) :
            last'.out[i].ml # Null =>
              last'.trainings >= 1 /\ classifiers' # NoClassifiers]_vars

\* C18 witness: after a clear that reached the store, a frame of two hands
\* got no learned prediction for either hand.
C18_Witness ==
  /\ last.op = "processHandResults"
  /\ Len(last.out) = 2
  /\ last.out[1].ml = Null
  /\ last.out[2].ml = Null
  /\ classifiers = NoClassifiers
  /\ storage = [models |-> JSONstringify(NoClassifiers),
                samples |-> JSONstringify(EmptySamples)]

\* A later state of the same behaviours: the label recorded after the clear
\* reached its target, the training pass left a location model, and a frame
\* got a learned prediction again.
C18_TrainedAgain ==
  /\ last.op = "processHandResults"
  /\ last.trainings = 0
  /\ last.out[1].ml # Null
  /\ SampleCount(calibrationSamples.location) = 4
  /\ LabelCount(calibrationSamples.location) = 1

\* C19: every gesture-detected event and every entry of the gesture history
\* carries a confidence between 0 and 1.
C19_ConfidenceInUnitInterval ==
  /\ \A k \in 1..Len(gestureHistory) :
       gestureHistory[k].confidence >= 0 /\ gestureHistory[k].confidence <= ONE
  /\ \A k \in 1..Len(GestureEvents(last)) :
       /\ GestureEvents(last)[k].detail.confidence >= 0
       /\ GestureEvents(last)[k].detail.confidence <= ONE

\* C19 witness: a frame emitted a learned label, which no pattern of the
\* table has, with the confidence of the learned prediction, strictly
\* between 0 and 1.
C19_Witness ==
  /\ Len(GestureEvents(last)) = 1
  /\ Len(gestureHistory) = 1
  /\ gestureHistory[1].gesture = "A"
  /\ gestureHistory[1].confidence = last.out[1].ml.confidence
  /\ GestureEvents(last)[1].detail.confidence = gestureHistory[1].confidence
  /\ gestureHistory[1].confidence > 0
  /\ gestureHistory[1].confidence < ONE

\* C20: no list of the store, of any type and label, holds more than
\* maxCalibrationSamplesPerLabel samples; a capture appends its features to
\* the list of the recorded label, and when the list was at the cap it drops
\* the oldest sample and keeps the new one.
C20_StoreCapped ==
  [][/\ \A t \in SampleTypes, l \in CalLabels :
          /\ Len(calibrationSamples[t][l]) <= maxCalibrationSamplesPerLabel
          /\ Len(calibrationSamples'[t][l]) <= maxCalibrationSamplesPerLabel
     /\ (frames' = frames + 1 /\ Len(last'.captured) = 1) =>
          LET hands == last'.args.hands
              packet == buildFeaturePacket(hands[1].pose, hands[1].label, hands, 0)
          IN \A t \in SampleTypes :
               LET old == calibrationSamples[t][currentCalibrationLabel]
               IN calibrationSamples'[t][currentCalibrationLabel] =
                    IF Len(old) < maxCalibrationSamplesPerLabel
                    THEN Append(old, packet[t])
                    ELSE Append(Tail(old), packet[t])]_vars

\* C20 witness: a capture at the cap dropped the oldest sample, of the
\* raised fist, and the newest sample is the one just captured.
C20_Witness ==
  LET list == calibrationSamples.handshape["B"]
  IN /\ Len(last.captured) = 1
     /\ Len(list) = maxCalibrationSamplesPerLabel
     /\ list[1] = computeHandshapeFeatures("Fist", None)
     /\ list[maxCalibrationSamplesPerLabel] = computeHandshapeFeatures("FistRight", None)

\* C21: while the three models are null no hand of a frame gets a learned
\* prediction, and the gesture selected for it is the one that the
\* recognizer without learned models selects: the entry of the highest
\* confidence among those that meet their own threshold, the earlier entry
\* when two are level, and none when no entry meets its threshold.
C21_NoModelsHeuristicOnly ==
  (IsFrame(last) /\ classifiers = NoClassifiers /\ last.trainings = 0) =>
    \A i \in 1..Len(last.out) :
      /\ last.out[i].ml = Null
      /\ last.out[i].selected = SelectHeuristic(HandConfidences(i))
      /\ IF Candidates(i) = {}
         THEN last.out[i].selected = NoMatch
         ELSE /\ last.out[i].selected.gesture = gesturePatterns[BestHeuristic(i)].name
              /\ last.out[i].selected.confidence = HandConfidences(i)[BestHeuristic(i)]

\* C21 witness: with no model, a hand of a frame of two hands met the
\* thresholds of two entries with the same confidence, and the earlier was
\* selected.
C21_Witness ==
  /\ IsFrame(last)
  /\ classifiers = NoClassifiers
  /\ \E i \in 1..Len(last.out) :
       \E j, k \in Candidates(i) :
         /\ j < k
         /\ HandConfidences(i)[j] = HandConfidences(i)[k]
         /\ last.out[i].selected.gesture = gesturePatterns[j].name
         /\ last.out[i].selected.confidence = HandConfidences(i)[j]

C24_WaveNeedsSixFrames ==
  [][(frames' = frames + 1 /\ \A i \in 1..Len(last'.out) : last'.out[i].error = None) =>
       \A i \in 1..Len(last'.out) :
         LET seen == Len(handHistories'[i - 1])
             wave == last'.out[i].confidences[1]
         IN /\ gesturePatterns[1].name = "hello"
            /\ seen = IF Len(handHistories[i - 1]) < 12
                      THEN Len(handHistories[i - 1]) + 1 ELSE 12
            /\ seen < 6 => wave = 0
            /\ seen >= 6 => wave \in {0, Conf(85)}]_vars

\* C24 witness: after a frame without hands, the 6th frame that shows hand 0
\* is the first for which detectWave returns 0.85.
C24_Witness ==
  /\ IsFrame(last)
  /\ frames > 6
  /\ Len(handHistories[0]) = 6
  /\ last.out[1].confidences[1] = Conf(85)

\* C25: a frame that shows at least one hand leaves the history of every
\* hand index it does not show as it was, and a history that held
\* observations becomes empty only in a step that processes a frame without
\* hands (not by stop or start, nor by a frame showing other hands).
C25_AbsentIndexKeepsHistory ==
  [][/\ (frames' = frames + 1 /\ Len(FrameHands(last')) > 0) =>
          \A i \in HandIndexes :
            i + 1 > Len(FrameHands(last')) => handHistories'[i] = handHistories[i]
     /\ \A i \in HandIndexes :
          (handHistories[i] # << >> /\ handHistories'[i] = << >>) =>
            (frames' = frames + 1 /\ Len(FrameHands(last')) = 0)]_vars

\* C25 witness: the first and third frames showed two hands and the second
\* one hand: the history of index 1 holds the observations of the first and
\* third frames, next to each other.
C25_Witness ==
  /\ IsFrame(last)
  /\ frames = 3
  /\ Len(handHistories[0]) = 3
  /\ handHistories[1] = << StreamPose(1), StreamPose(3) >>

\* The hands of a frame that selected a gesture, by position in the frame.
Selecting(rec) == {i \in 1..Len(rec.out) : rec.out[i].selected.gesture # None}

\* C26: with a cooldown of 0 or more and one reading of the clock for the
\* whole frame, a frame emits at most one gesture-detected event: none when
\* no hand selects a gesture or the cooldown has not expired, and otherwise
\* the gesture of the first hand that selects one, every later hand being
\* suppressed.
C26_OneEventPerFrame ==
  [][(/\ frames' = frames + 1
      /\ gestureCooldown >= 0
      /\ \A i \in 1..Len(last'.out) : last'.out[i].time = last'.out[1].time) =>
       LET events == GestureEvents(last')
           hands == Selecting(last')
           first == CHOOSE i \in hands : \A j \in hands : i <= j
       IN /\ Len(events) <= 1
          /\ IF hands # {} /\ last'.out[1].time - lastGestureTime > gestureCooldown
             THEN /\ Len(events) = 1
                  /\ events[1].detail.gesture = last'.out[first].selected.gesture
                  /\ \A i \in 1..Len(last'.out) : last'.out[i].emitted <=> i = first
             ELSE /\ Len(events) = 0
                  /\ \A i \in 1..Len(last'.out) : ~last'.out[i].emitted]_vars

\* C26 witness: with a cooldown of 0 both hands of a frame select a gesture
\* at the same reading of the clock; the first emits and the second does
\* not.
C26_Witness ==
  /\ IsFrame(last)
  /\ gestureCooldown = 0
  /\ Len(last.out) = 2
  /\ Selecting(last) = {1, 2}
  /\ last.out[1].time = last.out[2].time
  /\ last.out[1].emitted
  /\ ~last.out[2].emitted
  /\ Len(GestureEvents(last)) = 1

\* The labels of the samples a location model holds.
ModelLabels(model) == {model.data[k].label : k \in 1..Len(model.data)}

\* The only model is a location model whose samples all carry label l.
OneLabelModel(cls, l) ==
  /\ cls.handshape = Null
  /\ cls.orientation = Null
  /\ cls.location # Null
  /\ ModelLabels(cls.location) = {l}

\* C27: a training pass over a store of at least 3 samples, all of one
\* label, leaves the location model alone trained, on samples of that label;
\* while the models stay so, every hand of 21 landmarks of every frame gets
\* that label with confidence 1 from predictWithTrainedModels, and
\* analyzeHandGesture selects it with confidence 1 whatever the patterns
\* return.
C27_OneLabelAlwaysSelected ==
  [][\A l \in CalLabels :
       /\ (/\ last' # last
           /\ last'.trainings >= 1
           /\ \A t \in SampleTypes :
                /\ LabelCount(calibrationSamples'[t]) = 1
                /\ Len(calibrationSamples'[t][l]) >= 3)
            => OneLabelModel(classifiers', l)
       /\ (/\ frames' = frames + 1
           /\ last'.trainings = 0
           /\ OneLabelModel(classifiers, l))
            => \A i \in 1..Len(last'.out) :
                 NumLandmarks(FrameHands(last')[i].pose) = 21 =>
                   /\ last'.out[i].ml # Null
                   /\ last'.out[i].ml.label = l
                   /\ last'.out[i].ml.confidence = ONE
                   /\ last'.out[i].selected = [gesture |-> l, confidence |-> ONE]]_vars

\* C27 witness: from an empty store, a session of one label ended in a
\* training pass that left the location model alone; in a later frame one
\* hand raises the thumb (detectThumbUp returns 0.95) and the other shows the
\* palm, and the label is selected for both with confidence 1.
C27_Witness ==
  /\ IsFrame(last)
  /\ last.trainings = 0
  /\ OneLabelModel(classifiers, "B")
  /\ Len(last.out) = 2
  /\ last.out[1].confidences[2] = Conf(95)
  /\ \A i \in 1..2 : last.out[i].selected = [gesture |-> "B", confidence |-> ONE]

\* A step that calls startCalibration with a label that is not empty.
StartsSession ==
  /\ calls' = calls + 1
  /\ last'.op = "startCalibration"
  /\ Truthy(last'.args.label)

\* C28: startCalibration keeps every stored option that the call does not
\* pass (targetSamples can also be passed as target) and stores the ones it
\* passes; a call without options leaves calibrationOptions as the session
\* before left them and takes its target from them; no other operation
\* (stop, cancel, clear, frames, reaching the target) changes them.
C28_OptionsPersist ==
  [][IF StartsSession
     THEN LET o == last'.args.options
          IN /\ calibrationOptions'.targetSamples =
                  (IF Has(o, "targetSamples") THEN o.targetSamples
                   ELSE IF Has(o, "target") THEN o.target
                   ELSE calibrationOptions.targetSamples)
             /\ calibrationOptions'.captureInterval =
                  (IF Has(o, "captureInterval") THEN o.captureInterval
                   ELSE calibrationOptions.captureInterval)
             /\ calibrationOptions'.autoTrain =
                  (IF Has(o, "autoTrain") THEN o.autoTrain ELSE calibrationOptions.autoTrain)
             /\ calibrationCounters'.target = calibrationOptions'.targetSamples
             /\ o = NoArgs => calibrationOptions' = calibrationOptions
     ELSE calibrationOptions' = calibrationOptions]_vars

\* C28 witness: a session started with a target of 1 and autoTrain false
\* has ended by reaching its target; the next session, started without
\* options, has a target of 1 and autoTrain false instead of 60 and true.
C28_Witness ==
  /\ last.op = "startCalibration"
  /\ last.args.options = NoArgs
  /\ ~last.args.recording
  /\ calibrationMode
  /\ calibrationCounters = [collected |-> 0, target |-> 1]
  /\ calibrationOptions = [captureInterval |-> 120, targetSamples |-> 1, autoTrain |-> FALSE]

\* The calibration events of a handler, in the order of their emission.
CalibrationEvents(rec) ==
  SelectSeq(rec.emitted,
            LAMBDA e : e.event \in {"calibration-started", "calibration-progress",
                                     "calibration-stopped", "calibration-trained"})

\* From position k on, the events are the end of a session of n samples:
\* calibration-stopped with samples = n, followed by calibration-trained
\* exactly when its trained field is true, and nothing else.
EndsSession(events, k, n) ==
  /\ Len(events) >= k
  /\ events[k].event = "calibration-stopped"
  /\ events[k].detail.samples = n
  /\ Len(events) = IF events[k].detail.trained THEN k + 1 ELSE k
  /\ events[k].detail.trained => events[k + 1].event = "calibration-trained"

\* C29: the events of a session come in the order calibration-started (which
\* resets the count to 0), one calibration-progress per capture whose
\* collected field is the count so far plus one, then, when a stop, a cancel
\* or the capture reaching the target ends the session, one
\* calibration-stopped whose samples field is the count, then
\* calibration-trained exactly when training was asked for (the train
\* argument when it is a boolean, else autoTrain; never for a cancel).
\* While no session is open no handler emits a calibration event.
C29_SessionEventOrder ==
  [][LET events == CalibrationEvents(last')
         c == calibrationCounters.collected
     IN /\ frames' = frames + 1 =>
             IF ~calibrationMode THEN events = << >> /\ ~calibrationMode'
             ELSE \E m \in 0..Len(events) :
                    /\ \A k \in 1..m : /\ events[k].event = "calibration-progress"
                                        /\ events[k].detail.collected = c + k
                    /\ calibrationCounters'.collected = c + m
                    /\ IF Len(events) = m THEN calibrationMode'
                       ELSE /\ EndsSession(events, m + 1, c + m)
                            /\ events[m + 1].detail.trained = calibrationOptions.autoTrain
                            /\ ~calibrationMode'
        /\ calls' = calls + 1 =>
             CASE last'.op = "startCalibration" ->
                    IF Truthy(last'.args.label)
                    THEN /\ Len(events) = 1
                         /\ events[1].event = "calibration-started"
                         /\ calibrationCounters'.collected = 0
                         /\ calibrationMode'
                    ELSE events = << >> /\ calibrationMode' = calibrationMode
               [] last'.op \in {"stopCalibration", "cancelCalibration"} ->
                    /\ ~calibrationMode'
                    /\ IF ~calibrationMode THEN events = << >>
                       ELSE /\ EndsSession(events, 1, c)
                            /\ events[1].detail.trained =
                                 (IF last'.op = "cancelCalibration" THEN FALSE
                                  ELSE IF Has(last'.args.options, "train")
                                  THEN last'.args.options.train
                                  ELSE calibrationOptions.autoTrain)
               [] OTHER ->
                    /\ events = << >>
                    /\ calibrationMode' = calibrationMode
                    /\ calibrationCounters' = calibrationCounters]_vars

\* C29 witness: a session in which two frames were captured is ended by
\* stopCalibration: calibration-stopped with samples = 2, then
\* calibration-trained.
C29_Witness ==
  /\ last.op = "stopCalibration"
  /\ frames = 2
  /\ Len(CalibrationEvents(last)) = 2
  /\ EndsSession(CalibrationEvents(last), 1, 2)
  /\ ~calibrationMode

\* C30: starting from an empty store, in every state the handshape,
\* orientation and location stores hold the same number of samples of each
\* label.
C30_StoresInStep ==
  \A l \in CalLabels :
    /\ Len(calibrationSamples.handshape[l]) = Len(calibrationSamples.orientation[l])
    /\ Len(calibrationSamples.orientation[l]) = Len(calibrationSamples.location[l])

\* C30 witness: two sessions have recorded two samples each of two labels;
\* every store holds two of each.
C30_Witness ==
  /\ \A t \in SampleTypes :
       /\ Len(calibrationSamples[t]["A"]) = 2
       /\ Len(calibrationSamples[t]["B"]) = 2
  /\ IsFrame(last)
  /\ Len(last.captured) = 2

====
